---- MODULE Spec2Model ----
(***************************************************************************)
(* Orthodromic / loxodromic path visualizer: the App state (points,        *)
(* isLoading, error, viewMode, pathType), the Mercator component (d3-zoom  *)
(* transform, zoom.transform transitions, drawn overlay) and the globe     *)
(* component (orthographic rotation and scale, rotate tween, overlay).     *)
(*                                                                         *)
(* Numbers are fixed point: zoom factors in thousandths (Milli), screen    *)
(* coordinates in whole pixels, angles in whole degrees, the projection    *)
(* scale of the globe in thousandths of a pixel.                           *)
(***************************************************************************)
EXTENDS Integers, Sequences, FiniteSets, TLC

\* ------------------------------------------------------------------------
\* Bounds of the model
\* ------------------------------------------------------------------------

\* The viewport (getBoundingClientRect of the svg), in pixels.
Width == 720
Height == 440
\* How many events (submit, path-type click, view-mode click, wheel, drag,
\* the basemap load settling) one behaviour holds.
MaxSteps == 4

Milli == 10 ^ 3

\* ------------------------------------------------------------------------
\* State
\* ------------------------------------------------------------------------

VARIABLES
    points,       \* App: <<>> (null) or <<start, end>>
    isLoading,    \* App
    error,        \* App: "" (null) or the message
    viewMode,     \* App: the mounted visualization
    pathType,     \* App
    pending,      \* <<>> or <<from, to>>: the geocoding calls awaited by handleVisualize
    queued,       \* React: <<>> or the state updates of handleVisualize not rendered yet
    effectPending, \* React: the [points, pathType] effect of the last render has not run yet
    zoomT,        \* Mercator: the svg's zoom transform (__zoom)
    rotation,     \* globe: projection.rotate()
    zoomK,        \* globe: k of the svg's zoom transform
    scale,        \* globe: projection.scale(), thousandths of a pixel
    transitions,  \* d3's timer queue: the transitions in creation order
    overlay,      \* the .flight-path and .endpoint elements of the mounted svg
    fetches,      \* how many d3.json(WORLD_ATLAS_URL) calls were made
    basemap,      \* the d3.json promise of the mounted component, and the countries drawn
    steps,        \* events so far
    snapshot,     \* history: the view when the last request was issued
    settled,      \* history: the tweens whose last tick ran in the last frame
    dragged,      \* history: the last event was a pointer-move of a drag on the globe
    inFlight,     \* history: the calls of handleVisualize that have not returned
    zooming,      \* d3-zoom's gesture on the mounted svg (__zooming)
    geoIn,        \* geo utilities: the two coordinates they are called with
    geoOut        \* geo utilities: what they returned

vars == <<points, isLoading, error, viewMode, pathType, pending, queued, effectPending, zoomT, rotation,
          zoomK, scale, transitions, overlay, fetches, basemap, steps,
          snapshot, settled, dragged, inFlight, zooming, geoIn, geoOut>>

appVars == <<points, isLoading, error, viewMode, pathType, pending, queued, effectPending, inFlight>>
globeView == <<rotation, zoomK, scale>>
geoVars == <<geoIn, geoOut>>

\* ------------------------------------------------------------------------
\* Arithmetic helpers
\* ------------------------------------------------------------------------

Min(a, b) == IF a <= b THEN a ELSE b
Max(a, b) == IF a >= b THEN a ELSE b
Abs(a) == IF a < 0 THEN -a ELSE a

\* JavaScript's % : the remainder has the sign of the dividend.
JsRem(a, n) == IF a >= 0 THEN a % n ELSE -((-a) % n)

\* <<q, r>> with a * b = q * c + r and 0 <= r < c, for 0 <= a < c and b >= 0,
\* found digit by digit of b in the base given (2 or 8): no number beyond
\* 2 * base * c is formed on the way.
RECURSIVE MulDivPair(_, _, _, _)
MulDivPair(a, b, c, base) ==
    IF b = 0 THEN <<0, 0>>
    ELSE LET h == MulDivPair(a, b \div base, c, base)
             r == base * h[2] + (b % base) * a
         IN  <<base * h[1] + r \div c, r % c>>

\* a * b / c for c > 0, rounded to the nearest whole number (an amount beyond
\* 10^9 is given as 10^9)
MulDiv(a, b, c) ==
    LET qa == Abs(a) \div c
        m  == IF Abs(a) <= (2 ^ 30) \div Max(1, Abs(b))
              THEN (2 * Abs(a) * Abs(b) + c) \div (2 * c)
              ELSE IF qa > 0 /\ Abs(b) > 10 ^ 9 \div qa THEN 10 ^ 9
              ELSE LET h == MulDivPair(Abs(a) % c, Abs(b), c, IF c < 10 ^ 8 THEN 8 ELSE 2)
                   IN  Min(10 ^ 9, qa * Abs(b) + h[1] + (IF 2 * h[2] >= c THEN 1 ELSE 0))
    IN  IF (a < 0) = (b < 0) THEN m ELSE -m

\* Math.sqrt(n), rounded down (bisection between lo and hi).
RECURSIVE SqrtBetween(_, _, _)
SqrtBetween(n, lo, hi) ==
    IF hi - lo <= 1 THEN lo
    ELSE LET mid == (lo + hi) \div 2
         IN  IF mid * mid <= n THEN SqrtBetween(n, mid, hi) ELSE SqrtBetween(n, lo, mid)

Sqrt(n) == SqrtBetween(n, 0, 46341)

\* Sines and cosines are in ten-thousandths, angles in whole degrees.
Trig == 10 ^ 4

\* Math.sin of 0, 1, ..., 90 degrees
SinTable ==
    <<
      0, 175, 349, 523, 698, 872, 1045, 1219, 1392, 1564,
      1736, 1908, 2079, 2250, 2419, 2588, 2756, 2924, 3090, 3256,
      3420, 3584, 3746, 3907, 4067, 4226, 4384, 4540, 4695, 4848,
      5000, 5150, 5299, 5446, 5592, 5736, 5878, 6018, 6157, 6293,
      6428, 6561, 6691, 6820, 6947, 7071, 7193, 7314, 7431, 7547,
      7660, 7771, 7880, 7986, 8090, 8192, 8290, 8387, 8480, 8572,
      8660, 8746, 8829, 8910, 8988, 9063, 9135, 9205, 9272, 9336,
      9397, 9455, 9511, 9563, 9613, 9659, 9703, 9744, 9781, 9816,
      9848, 9877, 9903, 9925, 9945, 9962, 9976, 9986, 9994, 9998,
      10000
    >>

\* Math.sin of d degrees
Sin(d) ==
    LET a == d % 360
    IN  IF a <= 90 THEN SinTable[a + 1]
        ELSE IF a <= 180 THEN SinTable[180 - a + 1]
        ELSE IF a <= 270 THEN -SinTable[a - 180 + 1]
        ELSE -SinTable[360 - a + 1]

\* Math.cos of d degrees
Cos(d) == Sin(d + 90)

\* ------------------------------------------------------------------------
\* Coordinates (src/types.ts) and what the geocoder may answer
\* ------------------------------------------------------------------------

Coord(lat, lon) == [lat |-> lat, lon |-> lon]

Paris == Coord(49, 2)
NewYork == Coord(41, -74)
\* The geocoder returns whatever numbers the model replied with.
OutOfRange == Coord(95, 200)
Sydney == Coord(-34, 151)

\* getCoordinatesForLocation resolves to a Coordinates, to null, or throws.
Resolved(c) == [status |-> "ok", lat |-> c.lat, lon |-> c.lon]
GeocodeNull == [status |-> "null", lat |-> 0, lon |-> 0]
GeocodeThrow == [status |-> "throw", lat |-> 0, lon |-> 0]
Answers == {Paris, NewYork, OutOfRange, Sydney}
\* What the two calls of one request settle with: two places, one place
\* twice, a latitude and longitude out of range, two places more than 180
\* degrees of longitude apart, null, a throw.
GeocodeOutcomes ==
    {<<Resolved(Paris), Resolved(NewYork)>>, <<Resolved(Paris), Resolved(Paris)>>,
     <<Resolved(OutOfRange), Resolved(NewYork)>>, <<Resolved(NewYork), Resolved(Sydney)>>,
     <<Resolved(Paris), GeocodeNull>>, <<GeocodeThrow, Resolved(NewYork)>>}

\* The location strings of the form: empty, or a place name.
Locations == {"", "place"}
\* The (from, to) of a submit: one field empty, or both filled in.
Submits == {<<"", "place">>, <<"place", "place">>}

PathTypes == {"orthodromic", "loxodromic"}
ViewModes == {"globe", "map"}

\* ------------------------------------------------------------------------
\* Geo utilities (utils/geo): distances in whole kilometres, radians and the
\* stretched latitude in ten-thousandths
\* ------------------------------------------------------------------------

\* deg * (Math.PI / 180)
deg2rad(deg) ==
    IF deg >= 0 THEN (deg * 174533 + 500) \div Milli ELSE -(((-deg) * 174533 + 500) \div Milli)

\* Math.PI
Pi == deg2rad(180)

\* Radius of the Earth in kilometers
R == 6371

\* The haversine terms are in billionths, the central angle in millionths of
\* a radian.
Nano == 10 ^ 9

\* Math.sin of 0, 1, ..., 90 degrees, in billionths
SinNanoTable ==
    <<
      0, 17452406, 34899497, 52335956, 69756474,
      87155743, 104528463, 121869343, 139173101, 156434465,
      173648178, 190808995, 207911691, 224951054, 241921896,
      258819045, 275637356, 292371705, 309016994, 325568154,
      342020143, 358367950, 374606593, 390731128, 406736643,
      422618262, 438371147, 453990500, 469471563, 484809620,
      500000000, 515038075, 529919264, 544639035, 559192903,
      573576436, 587785252, 601815023, 615661475, 629320391,
      642787610, 656059029, 669130606, 681998360, 694658370,
      707106781, 719339800, 731353702, 743144825, 754709580,
      766044443, 777145961, 788010754, 798635510, 809016994,
      819152044, 829037573, 838670568, 848048096, 857167301,
      866025404, 874619707, 882947593, 891006524, 898794046,
      906307787, 913545458, 920504853, 927183855, 933580426,
      939692621, 945518576, 951056516, 956304756, 961261696,
      965925826, 970295726, 974370065, 978147601, 981627183,
      984807753, 987688341, 990268069, 992546152, 994521895,
      996194698, 997564050, 998629535, 999390827, 999847695,
      1000000000
    >>

\* Math.cos(deg2rad(d)) in billionths, for a whole d >= 0
CosNano(d) ==
    LET a == (d + 90) % 360
    IN  IF a <= 90 THEN SinNanoTable[a + 1]
        ELSE IF a <= 180 THEN SinNanoTable[180 - a + 1]
        ELSE IF a <= 270 THEN -SinNanoTable[a - 180 + 1]
        ELSE -SinNanoTable[360 - a + 1]

\* x * y of two numbers in billionths, to the nearest billionth, each split
\* at 10^5 to stay within 32 bits
MulNano(x, y) ==
    LET xh == x \div 10 ^ 5
        xl == x % 10 ^ 5
        yh == y \div 10 ^ 5
        yl == y % 10 ^ 5
    IN  xh * yh * 10
            + (xh * yl + xl * yh + ((xl \div 100) * (yl \div 100)) \div 10 + 5000) \div 10 ^ 4

\* Math.sin(x / 2) * Math.sin(x / 2) for x = deg2rad(deg), which is (1 - cos x) / 2
HalfSinSquared(deg) == (Nano - CosNano(Abs(deg))) \div 2

\* Math.sqrt(x) in hundredths: the whole root and a linear step for the rest
SqrtCenti(x) ==
    LET s == Sqrt(x)
    IN  IF s = 0 THEN 0 ELSE s * 100 + ((x - s * s) * 100) \div (2 * s)

\* 2 * Math.sqrt(a) at the angle of d degrees, for d up to 90
ChordOfDegrees(d) == SqrtCenti(4 * Min(HalfSinSquared(d), Nano \div 2))

\* 2 * Math.atan2(Math.sqrt(a), Math.sqrt(1 - a)) for a <= 1/2: the angle whose
\* chord is 2 sqrt(a), interpolated between the chords of whole degrees
AngleOfChord(a) ==
    LET s == SqrtCenti(4 * a)
        d == CHOOSE d \in 0 .. 90 :
                 ChordOfDegrees(d) <= s /\ (d = 90 \/ s < ChordOfDegrees(d + 1))
    IN  IF d = 90 THEN (90 * 1745329) \div 100
        ELSE (d * 1745329) \div 100
                 + ((s - ChordOfDegrees(d)) * 17453) \div (ChordOfDegrees(d + 1) - ChordOfDegrees(d))

\* 2 * Math.atan2(Math.sqrt(a), Math.sqrt(1 - a)); beyond a = 1/2 it is pi
\* less the angle of 1 - a
CentralAngle(a) ==
    LET v == Max(0, Min(Nano, a))
    IN  IF 2 * v <= Nano THEN AngleOfChord(v) ELSE 3141593 - AngleOfChord(Nano - v)

\* R * c, to the nearest kilometre
Kilometres(c) == (R * (c \div Milli) + (R * (c % Milli)) \div Milli + 500) \div Milli

\* A result of the arithmetic: a number v, -Infinity or +Infinity (inf = -1, 1), or NaN.
Num(v) == [v |-> v, inf |-> 0, nan |-> FALSE]
Inf(sign) == [v |-> 0, inf |-> sign, nan |-> FALSE]
NaN == [v |-> 0, inf |-> 0, nan |-> TRUE]

\* The whole latitudes at which sin^2 + cos^2 of the doubles rounds to
\* 1 + 2^-52, with the Math.sin and Math.cos of the engine the program runs on
\* (V8, whose sines and cosines are those of fdlibm).
OverUnityLats == {8, 12, 58, 82}

\* a > 1 in double arithmetic: deltaLat = -2 lat1 and deltaLon = +-180 degrees,
\* where a = sin^2(lat1) + cos^2(lat1) sin^2(pi / 2), at a latitude whose sum
\* rounds above 1. Math.sqrt(1 - a) is then NaN.
HaversineOverUnity(p1, p2) ==
    /\ p2.lat = -p1.lat
    /\ Abs(p2.lon - p1.lon) = 180
    /\ Abs(p1.lat) \in OverUnityLats

calculateOrthodromicDistance(p1, p2) ==
    LET a == HalfSinSquared(p2.lat - p1.lat)
               + MulNano(MulNano(CosNano(Abs(p1.lat)), CosNano(Abs(p2.lat))),
                         HalfSinSquared(p2.lon - p1.lon))
    IN  IF HaversineOverUnity(p1, p2) THEN NaN ELSE Num(Kilometres(CentralAngle(a)))

\* Math.log(Math.tan(lat / 2 + Math.PI / 4)) for the latitudes 0, 1, ..., 90
\* degrees; at 90 degrees the tangent of the double nearest to pi / 2 is
\* 1.633e16, and its logarithm 37.33.
PsiTable ==
    <<
      0, 175, 349, 524, 699, 874, 1049, 1225, 1401, 1577,
      1754, 1932, 2110, 2289, 2468, 2648, 2830, 3012, 3195, 3379,
      3564, 3750, 3938, 4127, 4317, 4509, 4702, 4897, 5094, 5293,
      5493, 5696, 5900, 6107, 6317, 6528, 6743, 6960, 7180, 7403,
      7629, 7859, 8092, 8328, 8569, 8814, 9063, 9316, 9575, 9838,
      10107, 10381, 10662, 10948, 11242, 11542, 11851, 12167, 12492, 12826,
      13170, 13524, 13890, 14268, 14659, 15065, 15485, 15923, 16379, 16856,
      17354, 17877, 18427, 19008, 19623, 20276, 20973, 21721, 22528, 23404,
      24362, 25421, 26603, 27942, 29487, 31313, 33547, 36425, 40481, 47413,
      373319
    >>

\* Math.log(Math.tan(phi / 2 + Math.PI / 4)) at a whole degree within
\* [-90, 90]: the tangent is 0 at -90 degrees, and its logarithm -Infinity.
Psi(lat) ==
    IF lat = -90 THEN Inf(-1)
    ELSE IF lat >= 0 THEN Num(PsiTable[lat + 1]) ELSE Num(-PsiTable[(-lat) + 1])

\* a - b of two logarithms
Minus(a, b) ==
    IF a.nan \/ b.nan THEN NaN
    ELSE IF a.inf # 0 THEN (IF b.inf = a.inf THEN NaN ELSE Inf(a.inf))
    ELSE IF b.inf # 0 THEN Inf(-b.inf)
    ELSE Num(a.v - b.v)

\* Math.log(Math.tan(phi2 / 2 + Math.PI / 4) / Math.tan(phi1 / 2 + Math.PI / 4))
LogTanRatio(lat1, lat2) ==
    IF lat1 = -90 /\ lat2 = -90 THEN NaN
    ELSE Minus(Psi(lat2), Psi(lat1))

\* Correct for longitude wrap-around, for a deltaLon and a pi of one unit
WrapAround(deltaLon, pi) ==
    IF Abs(deltaLon) > pi
    THEN IF deltaLon > 0 THEN -(2 * pi - deltaLon) ELSE 2 * pi + deltaLon
    ELSE deltaLon

WrappedDeltaLon(deltaLon) == WrapAround(deltaLon, Pi)

\* The loxodromic distance is computed in millionths: of a radian, of the
\* stretched latitude and of q.
Micro == 10 ^ 6

\* deg * (Math.PI / 180) in millionths of a radian
Radians(deg) ==
    IF deg >= 0 THEN deg * 17453 + (deg * 2925 + 5000) \div 10 ^ 4
    ELSE -((-deg) * 17453 + ((-deg) * 2925 + 5000) \div 10 ^ 4)

\* Math.PI in millionths
PiMicro == Radians(180)

\* Math.log(Math.tan(lat / 2 + Math.PI / 4)) for the latitudes 0, 1, ..., 90
\* degrees, in millionths
PsiMicroTable ==
    <<
      0, 17454, 34914, 52384, 69870, 87377, 104912, 122478,
      140082, 157730, 175426, 193177, 210988, 228865, 246814, 264842,
      282955, 301158, 319458, 337863, 356379, 375012, 393771, 412663,
      431695, 450875, 470213, 489715, 509392, 529253, 549306, 569563,
      590033, 610728, 631658, 652837, 674275, 695988, 717988, 740290,
      762910, 785863, 809167, 832841, 856903, 881374, 906275, 931632,
      957467, 983808, 1010683, 1038123, 1066162, 1094833, 1124177, 1154235,
      1185051, 1216675, 1249161, 1282567, 1316958, 1352405, 1388986, 1426788,
      1465908, 1506454, 1548547, 1592324, 1637939, 1685568, 1735415, 1787712,
      1842730, 1900787, 1962257, 2027589, 2097324, 2172122, 2252803, 2340401,
      2436246, 2542090, 2660306, 2794219, 2948700, 3131301, 3354674, 3642533,
      4048125, 4741349, 37331856
    >>

\* Math.log(Math.tan(phi2 / 2 + Math.PI / 4) / Math.tan(phi1 / 2 + Math.PI / 4))
\* in millionths: the tangent is 0 at -90 degrees
DeltaPsi(lat1, lat2) ==
    LET psi(lat) == IF lat = -90 THEN Inf(-1)
                    ELSE IF lat >= 0 THEN Num(PsiMicroTable[lat + 1])
                    ELSE Num(-PsiMicroTable[(-lat) + 1])
    IN  IF lat1 = -90 /\ lat2 = -90 THEN NaN ELSE Minus(psi(lat2), psi(lat1))

\* n / d for 0 <= n < 2^31 / 10 and d > 0, with the given number of decimal
\* digits, found digit by digit
RECURSIVE Quotient(_, _, _)
Quotient(n, d, digits) ==
    IF digits = 0 THEN n \div d
    ELSE (n \div d) * 10 ^ digits + Quotient((n % d) * 10, d, digits - 1)

\* x * y of two numbers in millionths, y >= 0, each split at 10^3
MulMicro(x, y) ==
    LET xh == Abs(x) \div Milli
        xl == Abs(x) % Milli
        yh == y \div Milli
        yl == y % Milli
        m  == xh * yh + (xh * yl + xl * yh + (xl * yl) \div Milli + 500) \div Milli
    IN  IF x < 0 THEN -m ELSE m

\* Math.sqrt(x * x + y * y) in millionths: the root of the sum in
\* ten-thousandths, and one step of Newton's from there
RootOfSquares(x, y) ==
    LET xa == Abs(x) \div 100
        xb == Abs(x) % 100
        ya == Abs(y) \div 100
        yb == Abs(y) % 100
        s  == Sqrt(xa * xa + ya * ya)
        rest == 100 * (xa * xa + ya * ya - s * s) + 2 * (xa * xb + ya * yb)
                    + (xb * xb + yb * yb) \div 100
    IN  IF s = 0 THEN Max(Abs(x), Abs(y)) ELSE s * 100 + rest \div (2 * s)

\* (mutant) the E-W factor cos(phi1) used for every course
LoxodromicQOfParallel(p1, p2) == CosNano(Abs(p1.lat)) \div Milli

\* q: deltaPhi / deltaPsi, or cos(phi1) for a straight E-W line (and for a
\* deltaPsi that is NaN, which the comparison with 10e-12 lets through as well)
LoxodromicQ(p1, p2) ==
    LET deltaPhi == Radians(p2.lat) - Radians(p1.lat)
        deltaPsi == DeltaPsi(p1.lat, p2.lat)
    IN  IF deltaPsi.nan THEN CosNano(Abs(p1.lat)) \div Milli
        ELSE IF deltaPsi.inf # 0 THEN 0
        ELSE IF deltaPsi.v # 0
             THEN IF (deltaPhi < 0) = (deltaPsi.v < 0)
                  THEN Quotient(Abs(deltaPhi), Abs(deltaPsi.v), 6)
                  ELSE -Quotient(Abs(deltaPhi), Abs(deltaPsi.v), 6)
        ELSE CosNano(Abs(p1.lat)) \div Milli

calculateLoxodromicDistance(p1, p2) ==
    LET deltaPhi == Radians(p2.lat) - Radians(p1.lat)
        deltaLon == WrapAround(Radians(p2.lon - p1.lon), PiMicro)
        q == LoxodromicQ(p1, p2)
        east == MulMicro(q, Abs(deltaLon))
    IN  Kilometres(RootOfSquares(deltaPhi, east))

\* ------------------------------------------------------------------------
\* Loxodromic route generator of the globe (GlobeVisualization, pathType
\* 'loxodromic'): samples in thousandths of a degree
\* ------------------------------------------------------------------------

numPoints == 50

\* Math.log(Math.tan(lat / 2 + Math.PI / 4)) for the latitudes 80.0, 80.1,
\* ..., 90.0 degrees, where the whole-degree table is too coarse
PsiFineTable ==
    <<
      24362, 24463, 24565, 24669, 24773, 24878, 24984, 25092, 25200, 25310,
      25421, 25533, 25647, 25761, 25877, 25995, 26113, 26234, 26355, 26478,
      26603, 26729, 26857, 26986, 27118, 27250, 27385, 27521, 27660, 27800,
      27942, 28086, 28233, 28381, 28532, 28685, 28840, 28998, 29158, 29321,
      29487, 29655, 29827, 30001, 30178, 30359, 30542, 30730, 30920, 31115,
      31313, 31515, 31722, 31933, 32148, 32368, 32593, 32823, 33058, 33300,
      33547, 33800, 34060, 34327, 34601, 34883, 35173, 35472, 35780, 36097,
      36425, 36764, 37116, 37479, 37857, 38249, 38658, 39083, 39528, 39993,
      40481, 40994, 41535, 42107, 42713, 43359, 44049, 44790, 45590, 46460,
      47413, 48467, 49645, 50980, 52522, 54345, 56577, 59453, 63508, 70440,
      373319
    >>

\* Math.log(n) for n = 1, 2, ..., 100, in ten-thousandths
LnTable ==
    <<
      0, 6931, 10986, 13863, 16094, 17918, 19459, 20794, 21972, 23026,
      23979, 24849, 25649, 26391, 27081, 27726, 28332, 28904, 29444, 29957,
      30445, 30910, 31355, 31781, 32189, 32581, 32958, 33322, 33673, 34012,
      34340, 34657, 34965, 35264, 35553, 35835, 36109, 36376, 36636, 36889,
      37136, 37377, 37612, 37842, 38067, 38286, 38501, 38712, 38918, 39120,
      39318, 39512, 39703, 39890, 40073, 40254, 40431, 40604, 40775, 40943,
      41109, 41271, 41431, 41589, 41744, 41897, 42047, 42195, 42341, 42485,
      42627, 42767, 42905, 43041, 43175, 43307, 43438, 43567, 43694, 43820,
      43944, 44067, 44188, 44308, 44427, 44543, 44659, 44773, 44886, 44998,
      45109, 45218, 45326, 45433, 45539, 45643, 45747, 45850, 45951, 46052
    >>

\* Math.log(n) for n = 1 .. 1000: beyond 100 it is Math.log(10) more than the
\* logarithm of n / 10, interpolated between the entries of the table
Ln(n) ==
    IF n <= 100 THEN LnTable[n]
    ELSE LET k == n \div 10
         IN  LnTable[10] + LnTable[k] + ((LnTable[Min(k + 1, 100)] - LnTable[k]) * (n % 10)) \div 10

\* Math.log(Math.tan(lat_i / 2 + Math.PI / 4)) at a latitude a >= 0 given in
\* thousandths of a degree.  Beyond 90 degrees the tangent is negative and its
\* logarithm NaN; in the last degree before the pole, c thousandths short of
\* it, the tangent is 2 / c in radians and the logarithm
\* Math.log(360000 / Math.PI) - Math.log(c) = 11.6491 - Math.log(c); elsewhere
\* it is interpolated between the entries of the tables.
PsiOfMilli(a) ==
    IF a > 90 * Milli THEN NaN
    ELSE IF a = 90 * Milli THEN Num(PsiTable[91])
    ELSE IF a >= 89 * Milli THEN Num(116491 - Ln(90 * Milli - a))
    ELSE IF a < 80 * Milli
    THEN LET d == a \div Milli
         IN  Num(PsiTable[d + 1] + ((PsiTable[d + 2] - PsiTable[d + 1]) * (a % Milli)) \div Milli)
    ELSE LET t == (a - 80 * Milli) \div 100
         IN  Num(PsiFineTable[t + 1]
                     + ((PsiFineTable[t + 2] - PsiFineTable[t + 1]) * (a % 100)) \div 100)

\* The same at a latitude of either sign: the tangent at -lat is the inverse
\* of the tangent at lat, and 0 at -90 degrees, whose logarithm is -Infinity.
PsiAt(mlat) ==
    IF mlat = -90 * Milli THEN Inf(-1)
    ELSE IF mlat >= 0 THEN PsiOfMilli(mlat)
    ELSE LET p == PsiOfMilli(-mlat) IN IF p.nan THEN NaN ELSE Num(-p.v)

\* One pushed coordinate [(lon_i * 180) / Math.PI, (lat_i * 180) / Math.PI];
\* nan says that lon_i is NaN.
RoutePoint(lon, lat) == [lon |-> lon, lat |-> lat, nan |-> FALSE]
RoutePointNaN(lat) == [lon |-> 0, lat |-> lat, nan |-> TRUE]

\* The whole-degree longitudes (lon1, lon2) exactly 180 degrees apart whose
\* difference (lon2 * Math.PI) / 180 - (lon1 * Math.PI) / 180 is beyond Math.PI
\* in double arithmetic (the two quotients are rounded one by one).
RoundedBeyondPi ==
    LET west == {-178, -167, -154, -147, -131, -49, -33, -26, -13, -2}
    IN  {<<w, w + 180>> : w \in west} \cup {<<w + 180, w>> : w \in west}

\* lon2 after: if (Math.abs(lon2 - lon1) > Math.PI) lon2 += (lon2 > lon1) ? -2 PI : 2 PI
AdjustedLon2(lon1, lon2) ==
    IF Abs(lon2 - lon1) > 180 \/ <<lon1, lon2>> \in RoundedBeyondPi
    THEN (IF lon2 > lon1 THEN lon2 - 360 ELSE lon2 + 360)
    ELSE lon2

\* The whole latitudes lat1 from which the last sample towards the south pole,
\* lat1 + (lat2 - lat1) * 1 with lat2 = -Math.PI / 2, is rounded to the double
\* next to -Math.PI / 2 on the near side (-89.99999999999999 degrees).  (From
\* 26, 35, 44, 53, 62, 66, 67, 71, 75, 76, 80 and 84 degrees it is rounded to
\* the double on the far side, where the tangent is negative, and from every
\* other latitude to -Math.PI / 2 itself.)
ShortOfSouthPole == {28, 37, 51, 55, 60, 64, 68, 69, 73, 77, 78, 87}

\* Math.log(Math.tan(lat_i / 2 + Math.PI / 4)) of that double: the tangent is
\* 1.11e-16 and its logarithm -36.7368
PsiShortOfSouthPole == Num(-367368)

\* The body of the loop for sample i.  With dPsi = NaN (both latitudes -90) or
\* dPsi = +Infinity (lat1 = -90) the quotient is NaN for every i; with
\* dPsi = -Infinity (lat2 = -90) it is 0 while psi_i is finite, and NaN at the
\* last sample where psi_i is -Infinity or NaN there: from the latitudes of
\* ShortOfSouthPole psi_i of the last sample is finite as well.  Otherwise
\* (psi_i - psi1) / dPsi is taken in ten-thousandths, or in thousandths where
\* dPsi is beyond 20.
RouteSample(start, end, i) ==
    LET lon2  == AdjustedLon2(start.lon, end.lon)
        dPsi  == LogTanRatio(start.lat, end.lat)
        lat_i == start.lat * Milli + (end.lat - start.lat) * (Milli \div numPoints) * i
        psi_i == IF i = numPoints /\ end.lat = -90 /\ start.lat \in ShortOfSouthPole
                 THEN PsiShortOfSouthPole
                 ELSE PsiAt(lat_i)
        psi1  == Psi(start.lat)
        diff  == Minus(psi_i, psi1)
    IN  IF ~dPsi.nan /\ dPsi.inf = 0 /\ dPsi.v = 0
        THEN RoutePoint(start.lon * Milli + (lon2 - start.lon) * (Milli \div numPoints) * i, lat_i)
        ELSE IF dPsi.nan \/ diff.nan THEN RoutePointNaN(lat_i)
        ELSE IF dPsi.inf # 0
        THEN (IF diff.inf # 0 THEN RoutePointNaN(lat_i) ELSE RoutePoint(start.lon * Milli, lat_i))
        ELSE LET unit == IF Abs(dPsi.v) > 20 * Trig THEN Milli ELSE Trig
                 f    == (diff.v * unit) \div dPsi.v
             IN  RoutePoint(start.lon * Milli + ((lon2 - start.lon) * Milli * f) \div unit, lat_i)

\* coords after the loop: numPoints + 1 samples
loxodromicRoute(start, end) == [n \in 1 .. numPoints + 1 |-> RouteSample(start, end, n - 1)]

\* ------------------------------------------------------------------------
\* Mercator projection (d3.geoMercator at the baseline scale width / 2 pi)
\* ------------------------------------------------------------------------

\* A projected point; nan when a coordinate of it is NaN.
Pt(x, y) == [x |-> x, y |-> y, nan |-> FALSE]
NaNPt == [x |-> 0, y |-> 0, nan |-> TRUE]

\* d3's rotation normalises a longitude beyond +-180 degrees:
\* lambda -= Math.round(lambda / tau) * tau.
NormLon(lon) == IF Abs(lon) > 180 THEN lon - 360 * ((2 * lon + 360) \div 720) ELSE lon

\* ln(tan(pi/4 + lat/2)) / (2 pi) in thousandths, for the latitudes of Answers.
StretchedLat(lat) ==
    CASE lat = 49 -> 157
      [] lat = 41 -> 125
      [] lat = 0 -> 0
      [] lat = -34 -> -101

\* Math.log of a negative tangent is NaN: beyond the poles y is NaN.
MercatorProject(c) ==
    IF Abs(c.lat) > 90 THEN NaNPt
    ELSE Pt(Width \div 2 + (Width * NormLon(c.lon)) \div 360,
            Height \div 2 - (Width * StretchedLat(c.lat)) \div Milli)

\* ------------------------------------------------------------------------
\* d3-zoom transforms: (k, x, y), k in thousandths; nan when k, x and y are
\* NaN, xyNaN when x and y are NaN and k is a number
\* ------------------------------------------------------------------------

Transform(k, x, y) == [k |-> k, x |-> x, y |-> y, nan |-> FALSE, xyNaN |-> FALSE]
NaNTransform == [k |-> 0, x |-> 0, y |-> 0, nan |-> TRUE, xyNaN |-> FALSE]
\* new Transform(k, NaN, NaN)
NaNTranslated(k) == [k |-> k, x |-> 0, y |-> 0, nan |-> FALSE, xyNaN |-> TRUE]
\* x and y of the transform are numbers
Placed(t) == ~t.nan /\ ~t.xyNaN
zoomIdentity == Transform(Milli, 0, 0)

\* zoom.scaleExtent([0.8, 18])
MercatorScaleExtent == <<(8 * Milli) \div 10, 18 * Milli>>
\* (mutant) the globe given the extent of the Mercator view
GlobeScaleExtentOfMercator == <<(8 * Milli) \div 10, 18 * Milli>>
\* zoom.scaleExtent([0.8, 10]) of the globe
GlobeScaleExtent == <<(8 * Milli) \div 10, 10 * Milli>>

Clamp(v, extent) == Max(extent[1], Min(extent[2], v))

\* (mutant) the bounding box measured on the screen, under the current zoom
MercatorAutoFitOnScreen(ends) ==
    LET p1 == MercatorProject(ends[1])
        p2 == MercatorProject(ends[2])
    IN  IF p1.nan \/ p2.nan \/ zoomT.nan THEN NaNTransform
        ELSE LET dx == ((Max(p1.x, p2.x) - Min(p1.x, p2.x)) * zoomT.k) \div Milli
                 dy == ((Max(p1.y, p2.y) - Min(p1.y, p2.y)) * zoomT.k) \div Milli
                 x == (Min(p1.x, p2.x) + Max(p1.x, p2.x)) \div 2
                 y == (Min(p1.y, p2.y) + Max(p1.y, p2.y)) \div 2
                 ratio == Max((dx * Milli) \div Width, (dy * Milli) \div Height)
                 fit == IF ratio = 0 THEN MercatorScaleExtent[2]
                          ELSE Max(MercatorScaleExtent[1],
                                   Min(MercatorScaleExtent[2], (900 * Milli) \div ratio))
             IN  Transform(fit,
                           Width \div 2 - (fit * x) \div Milli,
                           Height \div 2 - (fit * y) \div Milli)

\* (mutant) the translation taken for the centre of the box at scale 1
MercatorAutoFitUnscaledCentre(ends) ==
    LET p1 == MercatorProject(ends[1])
        p2 == MercatorProject(ends[2])
    IN  IF p1.nan \/ p2.nan THEN NaNTransform
        ELSE LET dx == Max(p1.x, p2.x) - Min(p1.x, p2.x)
                 dy == Max(p1.y, p2.y) - Min(p1.y, p2.y)
                 x == (Min(p1.x, p2.x) + Max(p1.x, p2.x)) \div 2
                 y == (Min(p1.y, p2.y) + Max(p1.y, p2.y)) \div 2
                 ratio == Max((dx * Milli) \div Width, (dy * Milli) \div Height)
                 fit == IF ratio = 0 THEN MercatorScaleExtent[2]
                          ELSE Max(MercatorScaleExtent[1],
                                   Min(MercatorScaleExtent[2], (900 * Milli) \div ratio))
             IN  Transform(fit, Width \div 2 - x, Height \div 2 - y)

\* The auto-fit target of the Mercator view for the two endpoints.
MercatorAutoFit(ends) ==
    LET p1 == MercatorProject(ends[1])
        p2 == MercatorProject(ends[2])
    IN  IF p1.nan \/ p2.nan THEN NaNTransform
        ELSE LET dx == Max(p1.x, p2.x) - Min(p1.x, p2.x)
                 dy == Max(p1.y, p2.y) - Min(p1.y, p2.y)
                 x == (Min(p1.x, p2.x) + Max(p1.x, p2.x)) \div 2
                 y == (Min(p1.y, p2.y) + Max(p1.y, p2.y)) \div 2
                 ratio == Max((dx * Milli) \div Width, (dy * Milli) \div Height)
                 \* 0.9 / 0 is Infinity, which Math.min(18, .) turns into 18
                 fit == IF ratio = 0 THEN MercatorScaleExtent[2]
                          ELSE Max(MercatorScaleExtent[1],
                                   Min(MercatorScaleExtent[2], (900 * Milli) \div ratio))
             IN  Transform(fit,
                           Width \div 2 - (fit * x) \div Milli,
                           Height \div 2 - (fit * y) \div Milli)

\* ------------------------------------------------------------------------
\* The transition of zoom.transform (d3-zoom schedule: interpolateZoom)
\* ------------------------------------------------------------------------

\* The centre of the zoom extent [[0, 0], [width, height]] and its larger side.
ExtentCentre == [x |-> Width \div 2, y |-> Height \div 2]
ExtentSide == Max(Width, Height)

\* transform.invert(p), in thousandths of a pixel: [(p[0] - x) / k, (p[1] - y) / k]
Invert(t, p) ==
    IF ~Placed(t) THEN NaNPt
    ELSE Pt(MulDiv(p.x - t.x, Micro, t.k), MulDiv(p.y - t.y, Micro, t.k))

\* Math.sqrt(x * x + y * y) of two lengths in thousandths of a pixel, of
\* whatever size
RECURSIVE Distance(_, _)
Distance(x, y) ==
    IF Max(Abs(x), Abs(y)) < 3 * Micro THEN RootOfSquares(x, y)
    ELSE 10 * Distance(Abs(x) \div 10, Abs(y) \div 10)

\* interpolateZoom runs from the view (centre u0, width w0) to (u1, w1) along
\* van Wijk's path, on which the width is w0 cosh(r0) / cosh(rho s + r0): when
\* the centres are d > 0 apart and 0 < w1^2 - w0^2 + 4 d^2 < 8 d^2 the width
\* passes a maximum sqrt(w0^2 + g^2), g = (w1^2 - w0^2 + 4 d^2) / (4 d), at the
\* fraction g / (2 d) of the way.  ZoomPeakFrame is the transform of that
\* frame, <<>> when the width changes monotonically.  The centres are those
\* of the point p of the schedule: the centre of the extent for
\* zoom.transform, the pointer for a double click.  Centres and widths are
\* in thousandths of a pixel; the frame is
\* new Transform(k, p[0] - l[0] * k, p[1] - l[1] * k) with k = w / l[2].
ZoomPeakFrame(a, b, p) ==
    IF ~Placed(a) \/ ~Placed(b) THEN <<>>
    ELSE LET u0 == Invert(a, p)
             u1 == Invert(b, p)
             w0 == MulDiv(ExtentSide, Micro, a.k)
             w1 == MulDiv(ExtentSide, Micro, b.k)
             d == Distance(u1.x - u0.x, u1.y - u0.y)
         IN  IF d = 0 THEN <<>>
             ELSE LET g == d + MulDiv(w1 - w0, w1 + w0, 4 * d)
                  IN  IF g <= 0 \/ g >= 2 * d THEN <<>>
                      ELSE LET w == Distance(w0, g)
                               ux == u0.x + MulDiv(u1.x - u0.x, g, 2 * d)
                               uy == u0.y + MulDiv(u1.y - u0.y, g, 2 * d)
                           IN  <<Transform(MulDiv(ExtentSide * Milli, Milli, w),
                                           p.x - MulDiv(MulDiv(ux, ExtentSide * Milli, w), 1, Milli),
                                           p.y - MulDiv(MulDiv(uy, ExtentSide * Milli, w), 1, Milli))>>

\* The frame at t close to 0: the start transform; NaN when a number of
\* either end is NaN (the interpolator then returns NaN for centre and width).
ZoomFirstFrame(a, b) == IF ~Placed(a) \/ ~Placed(b) THEN NaNTransform ELSE a

\* (mutant) the last frame taken from the interpolator like the others:
\* k = w / l[2] with l[2] = w / b.k, and its rounding
ZoomLastFrameInterpolated(a, b) ==
    IF b.nan THEN b
    ELSE [b EXCEPT !.k = (ExtentSide * Milli) \div ((ExtentSide * Milli) \div b.k)]

\* if (t === 1) t = b: the last frame is the target itself.
ZoomLastFrame(a, b) == b

\* ------------------------------------------------------------------------
\* The globe's projection: rotate([lambda, phi, gamma]) and the rotate tween
\* ------------------------------------------------------------------------

\* Math.min(width, height) / 2.2
BaselineScale == (Min(Width, Height) * 10) \div 22

\* .rotate([0, -20])
InitialRotation == <<0, -20, 0>>

\* projection.rotate(_) keeps each angle % 360; a missing gamma is 0.
RotateSet(r) == <<JsRem(r[1], 360), JsRem(r[2], 360), IF Len(r) > 2 THEN JsRem(r[3], 360) ELSE 0>>

\* d3.geoInterpolate(start, end)(0.5) as [lon, lat], in whole degrees.
GeoMidpoint(c1, c2) ==
    CASE c1 = c2 -> <<c1.lon, c1.lat>>
      [] {c1, c2} = {Paris, NewYork} -> <<-39, 52>>
      [] {c1, c2} = {Paris, OutOfRange} -> <<4, 67>>
      [] {c1, c2} = {NewYork, OutOfRange} -> <<-67, 65>>
      [] {c1, c2} = {Paris, Sydney} -> <<99, 24>>
      [] {c1, c2} = {NewYork, Sydney} -> <<-148, 9>>

\* targetRotation = [-center[0], -center[1]]
GlobeAutoFit(ends) ==
    LET center == GeoMidpoint(ends[1], ends[2])
    IN  <<-center[1], -center[2]>>

\* d3.interpolate(currentRotation, target)(t) at t = 1/2 and at t = 1.
RotateMidFrame(a, b) == <<(a[1] + b[1]) \div 2, (a[2] + b[2]) \div 2, (a[3] + b[3]) \div 2>>
RotateLastFrame(a, b) == b

\* ------------------------------------------------------------------------
\* Transitions (d3-transition schedule) and the timer queue
\* ------------------------------------------------------------------------

MercatorFitDuration == 1250
GlobeFitDuration == 1250
ResetDuration == 750

\* svg.transition().duration(d).call(zoom.transform, target)
ZoomTransition(kind, duration, target, ends) ==
    [node |-> "svg", kind |-> kind, duration |-> duration, phase |-> "scheduled",
     from |-> target, to |-> target, ends |-> ends, live |-> TRUE, about |-> ExtentCentre,
     peak |-> <<>>, mouse |-> FALSE]

\* dblclicked of d3-zoom: select(this).transition().duration(250)
\*     .call(schedule, t1, p0, event)
DblclickDuration == 250
DblclickTransition(target, p) ==
    [ZoomTransition("dblclick", DblclickDuration, target, <<>>) EXCEPT !.about = p]

\* d3.transition().duration(1250).tween('rotate', ...): on the document root
RotateTransition(target, ends) ==
    [node |-> "root", kind |-> "fit", duration |-> GlobeFitDuration, phase |-> "scheduled",
     from |-> <<0, 0, 0>>, to |-> <<target[1], target[2], 0>>, ends |-> ends, live |-> TRUE,
     about |-> ExtentCentre, peak |-> <<>>, mouse |-> FALSE]

Running(t) == t.phase \in {"started", "mid"}

\* A transition that starts interrupts the running transition of the same
\* name on its node and cancels the ones scheduled before it.
InterruptOthers(ts, i) ==
    [j \in 1 .. Len(ts) |->
        IF j # i /\ ts[j].node = ts[i].node
              /\ (Running(ts[j]) \/ (ts[j].phase = "scheduled" /\ j < i))
        THEN [ts[j] EXCEPT !.phase = "ended"]
        ELSE ts[j]]

\* interrupt(node): ends the running and the scheduled transitions of the node.
Interrupt(ts, node) == SelectSeq(ts, LAMBDA t : t.node # node)

\* A record of a gesture, g.mouse, g.touch0 or g.touch1: the place p of the
\* pointer on the svg (pixels) and the point l of the map that the gesture
\* keeps under it (transform.invert(p) when the record was made or refreshed,
\* thousandths of a pixel).
Grip(p, l) == [p |-> p, l |-> l]

\* g.zoom(key, t) of a gesture for a key that is not the record's own:
\* record[1] = t.invert(record[0])
Regripped(rec, t) == IF rec = <<>> THEN rec ELSE <<Grip(rec[1].p, Invert(t, rec[1].p))>>
Refreshed(g, t) ==
    [g EXCEPT !.mouse = Regripped(@, t), !.touch0 = Regripped(@, t), !.touch1 = Regripped(@, t)]

\* The state a frame of d3-timer works on: the queue, the zoom transform of
\* the svg, the rotation, what settled, and the gesture that is
\* this.__zooming of the svg.
Timers(ts, zoom, rot, done, g) ==
    [ts |-> ts, zoom |-> zoom, rot |-> rot, settled |-> done, g |-> g]

\* A tick of the zoom tween i: g.zoom(null, z) of the tween's gesture sets
\* this.__zoom and refreshes the records of that gesture, which are those of
\* the pointer when the tween took up the gesture of the pointer at its start.
ZoomTick(st, i, z) ==
    [st EXCEPT !.zoom = z, !.g = IF st.ts[i].mouse THEN Refreshed(@, z) ELSE @]

\* start: the tween is initialised with the view of that moment (the zoom
\* tween takes gesture(that, args), which is this.__zooming if there is one,
\* and makes its interpolator; peak says where its width is largest) and
\* ticks once.
StartTimer(st, i) ==
    LET t == st.ts[i]
        ts1 == InterruptOthers(st.ts, i)
    IN  IF t.node = "svg"
        THEN ZoomTick([st EXCEPT !.ts = [ts1 EXCEPT ![i].phase = "started", ![i].from = st.zoom,
                                               ![i].peak = ZoomPeakFrame(st.zoom, t.to, t.about),
                                               ![i].mouse = st.g.held]],
                      i, ZoomFirstFrame(st.zoom, t.to))
        ELSE LET from == IF t.live THEN st.rot ELSE t.from
                 to == <<t.to[1], t.to[2], from[3]>>
             IN  [st EXCEPT !.ts = [ts1 EXCEPT ![i].phase = "started", ![i].from = from, ![i].to = to]]

\* the last tick, at t = 1
LastTick(st, i) ==
    LET t == st.ts[i]
    IN  IF t.node = "svg"
        THEN LET z == ZoomLastFrame(t.from, t.to)
             IN  [ZoomTick(st, i, z) EXCEPT
                     !.ts[i].phase = "ended",
                     !.settled = Append(@, [node |-> "svg", kind |-> t.kind, ends |-> t.ends,
                                            target |-> <<t.to>>, view |-> <<z>>])]
        ELSE LET r == IF t.live THEN RotateSet(RotateLastFrame(t.from, t.to)) ELSE st.rot
             IN  [st EXCEPT
                     !.ts[i].phase = "ended",
                     !.rot = r,
                     !.settled = IF t.live
                                 THEN Append(@, [node |-> "root", kind |-> t.kind, ends |-> t.ends,
                                                 target |-> <<t.to>>, view |-> <<r>>])
                                 ELSE @]

\* a tick between the first and the last
MidTick(st, i) ==
    LET t == st.ts[i]
    IN  IF t.node = "svg"
        THEN IF t.peak = <<>> THEN LastTick(st, i)
             ELSE [ZoomTick(st, i, t.peak[1]) EXCEPT !.ts[i].phase = "mid"]
        ELSE [st EXCEPT !.ts[i].phase = "mid",
                        !.rot = IF t.live THEN RotateSet(RotateMidFrame(t.from, t.to)) ELSE @]

\* The frame now run is the last of transition i by its own course: it had
\* its tick between, or it is a zoom along which the width has no maximum.
OwnLastFrame(ts, i) ==
    \/ ts[i].phase = "mid"
    \/ ts[i].phase = "started" /\ ts[i].node = "svg" /\ ts[i].peak = <<>>

\* All the timers of a frame are called with one clock: when a transition has
\* its last tick (elapsed >= duration), so has every transition created before
\* it whose duration is not longer.
Elapsed(ts, i) ==
    \E j \in i .. Len(ts) : OwnLastFrame(ts, j) /\ ts[j].duration >= ts[i].duration

\* One animation frame: d3-timer calls the timers in creation order.
RECURSIVE RunTimers(_, _)
RunTimers(st, i) ==
    IF i > Len(st.ts) THEN st
    ELSE LET t == st.ts[i]
         IN  CASE t.phase = "scheduled" -> RunTimers(StartTimer(st, i), i + 1)
               [] t.phase = "started" ->
                    RunTimers(IF Elapsed(st.ts, i) THEN LastTick(st, i) ELSE MidTick(st, i), i + 1)
               [] t.phase = "mid" -> RunTimers(LastTick(st, i), i + 1)
               [] OTHER -> RunTimers(st, i + 1)

\* ------------------------------------------------------------------------
\* The points/pathType effect of the two components
\* ------------------------------------------------------------------------

\* The overlay elements.  size is the stroke-width of a flight path and the r
\* of an endpoint, in thousandths of a pixel: <<v>>, or <<>> for NaN.  display
\* is the display style of an endpoint, "" while none is set.  growth is <<n>>
\* while the transition of r of a circle of the globe is under way, n frames
\* after the circle was drawn, and <<>> for an element without transition.
FlightPath(shape, ends, ptype, size) ==
    [class |-> "flight-path", shape |-> shape, datum |-> ends, pathType |-> ptype,
     size |-> size, display |-> "", growth |-> <<>>]
Endpoint(c, size) ==
    [class |-> "endpoint", shape |-> "circle", datum |-> <<c>>, pathType |-> "",
     size |-> size, display |-> "", growth |-> <<>>]

\* A circle of the globe: .attr('r', 0) and
\* .transition().duration(500).delay(1000).attr('r', 5)
GrowingEndpoint(c) == [Endpoint(c, <<0>>) EXCEPT !.growth = <<0>>]

\* r of such a circle n frames after it was drawn.  The frames are those of
\* the rotate tween scheduled with it (1250 ms), then one more past the end
\* of the transition of r (1500 ms): r stays 0 while the delay of 1000 ms has
\* not passed (the first frame, the frame between), is 5 easeCubic(1 / 2) at
\* 1250 ms and 5 in the frame after.
GrownRadius(n) ==
    IF n < 3 THEN 0 ELSE IF n = 3 THEN (5 * Milli) \div 2 ELSE 5 * Milli

\* The transitions of r tick: the last tick ends the transition.
Grown(ov) ==
    [i \in DOMAIN ov |->
        IF ov[i].growth = <<>> THEN ov[i]
        ELSE LET n == ov[i].growth[1] + 1
             IN  [ov[i] EXCEPT !.size = <<GrownRadius(n)>>,
                               !.growth = IF n > 3 THEN <<>> ELSE <<n>>]]

\* a transition of r is under way
Growing(ov) == \E i \in DOMAIN ov : ov[i].growth # <<>>

\* base / Math.sqrt(k)
Sized(base, zoom) ==
    IF zoom.nan THEN <<>> ELSE <<(base * Milli * Milli) \div Sqrt(zoom.k * Milli)>>

\* the 'zoom' listener the Mercator effect installs: stroke-width 2 / sqrt(k),
\* r 5 / sqrt(k)
Resized(ov, zoom) ==
    [i \in DOMAIN ov |->
        [ov[i] EXCEPT !.size = Sized(IF ov[i].class = "endpoint" THEN 5 ELSE 2, zoom)]]

\* d3.geoDistance(d, [-rotate[0], -rotate[1]]) <= Math.PI / 2: the cosine of
\* the distance is not negative
IsVisible(c, rot) ==
    Sin(c.lat) * Sin(-rot[2]) + ((Cos(c.lat) * Cos(-rot[2])) \div Trig) * Cos(c.lon + rot[1]) >= 0

\* redrawElements and the tick of the rotate tween: every endpoint gets its
\* display style
Redrawn(ov, rot) ==
    [i \in DOMAIN ov |->
        IF ov[i].class = "endpoint"
        THEN [ov[i] EXCEPT !.display = IF IsVisible(ov[i].datum[1], rot)
                                       THEN "inline" ELSE "none"]
        ELSE ov[i]]

\* (mutant) the effect drawing without removing what it drew before
RemoveNothing(ov) == ov

\* selectAll('.flight-path, .endpoint').remove()
RemoveOverlay(ov) == SelectSeq(ov, LAMBDA e : e.class \notin {"flight-path", "endpoint"})

\* MercatorVisualization: a line for the rhumb line, a geo path for the great
\* circle, then the two endpoint circles, sized for currentZoom.
MercatorDraw(ov, pts, ptype, currentZoom) ==
    IF pts = <<>> THEN RemoveOverlay(ov)
    ELSE RemoveOverlay(ov)
            \o <<FlightPath(IF ptype = "loxodromic" THEN "line" ELSE "path", pts, ptype,
                             Sized(2, currentZoom))>>
            \o <<Endpoint(pts[1], Sized(5, currentZoom)), Endpoint(pts[2], Sized(5, currentZoom))>>

\* the transition the Mercator effect schedules: auto-fit, or the reset
MercatorTween(pts) ==
    IF pts = <<>> THEN ZoomTransition("reset", ResetDuration, zoomIdentity, <<>>)
    ELSE ZoomTransition("fit", MercatorFitDuration, MercatorAutoFit(pts), pts)

\* (mutant) the overlay drawn only over the countries, once they are loaded
GlobeDrawOnCountries(ov, pts, ptype) ==
    IF pts = <<>> \/ basemap # "loaded" THEN RemoveOverlay(ov)
    ELSE RemoveOverlay(ov) \o <<FlightPath("path", pts, ptype, <<2 * Milli>>)>>
            \o <<GrowingEndpoint(pts[1]), GrowingEndpoint(pts[2])>>

\* GlobeVisualization: one geo path (sampled for the rhumb line), two circles
\* of r 0 that grow in.
GlobeDraw(ov, pts, ptype) ==
    IF pts = <<>> THEN RemoveOverlay(ov)
    ELSE RemoveOverlay(ov) \o <<FlightPath("path", pts, ptype, <<2 * Milli>>)>>
            \o <<GrowingEndpoint(pts[1]), GrowingEndpoint(pts[2])>>

\* the rotate tween of the globe effect: only when there are points
GlobeTween(pts) ==
    IF pts = <<>> THEN <<>> ELSE <<RotateTransition(GlobeAutoFit(pts), pts)>>

\* The effect of the mounted component for the props of a render, on the
\* overlay ov and the timer queue ts; zoom is the zoom transform of the svg.
EffectOverlay(mode, ov, pts, ptype, zoom) ==
    IF mode = "map" THEN MercatorDraw(ov, pts, ptype, zoom) ELSE GlobeDraw(ov, pts, ptype)
EffectTransitions(mode, ts, pts) ==
    IF mode = "map" THEN Append(ts, MercatorTween(pts)) ELSE ts \o GlobeTween(pts)

PathEffect(mode, ov, ts, pts, ptype, zoom) ==
    /\ overlay' = EffectOverlay(mode, ov, pts, ptype, zoom)
    /\ transitions' = EffectTransitions(mode, ts, pts)

\* React runs the effects of a render before it renders again: the overlay
\* and the timer queue a render of App starts from.
Flushed ==
    IF effectPending
    THEN [overlay |-> EffectOverlay(viewMode, overlay, points, pathType, zoomT),
          transitions |-> EffectTransitions(viewMode, transitions, points)]
    ELSE [overlay |-> overlay, transitions |-> transitions]

\* ------------------------------------------------------------------------
\* Initial state: App renders the globe with no points
\* ------------------------------------------------------------------------

\* The snapshot says something only of a request issued with a path on
\* display and no transition in the queue, and only until the user moves the
\* view, changes the path type or switches the mode: otherwise there is none.
NoSnapshot ==
    [outcome |-> "none", hadPath |-> FALSE, idle |-> FALSE, touched |-> FALSE,
     mode |-> "globe", zoom |-> zoomIdentity, rot |-> InitialRotation, scale |-> 0]

\* The gestures of d3-zoom on the svg.  wheel: the timer of the last wheel
\* event (wheelDelay, 150 ms) is pending on the gesture that is this.__zooming.
\* mouse: <<>>, or the record g.mouse of the button that is down on the
\* Mercator svg.  touch0, touch1: <<>>, or the records of the fingers on it.
\* orphan: the timer of a wheel gesture is pending that a press has replaced
\* as this.__zooming.  held: the gesture of the button or of the fingers is
\* this.__zooming.
NoGesture ==
    [wheel |-> FALSE, orphan |-> FALSE, held |-> FALSE, mouse |-> <<>>, touch0 |-> <<>>,
     touch1 |-> <<>>]

\* the result of no call
NoGeo == [done |-> "none", ortho |-> Num(0), lox |-> 0, route |-> <<>>, deltaLon |-> 0, lonSpan |-> 0]

AppInit ==
    /\ points = <<>>
    /\ isLoading = FALSE
    /\ error = ""
    /\ viewMode = "globe"
    /\ pathType = "orthodromic"
    /\ pending = <<>>
    /\ queued = <<>>
    /\ effectPending = FALSE
    /\ zoomT = zoomIdentity
    /\ rotation = InitialRotation
    /\ zoomK = Milli
    /\ scale = BaselineScale * Milli
    /\ transitions = <<>>
    /\ overlay = <<>>
    /\ fetches = 1
    /\ basemap = "loading"
    /\ steps = 0
    /\ snapshot = NoSnapshot
    /\ settled = <<>>
    /\ dragged = FALSE
    /\ inFlight = 0
    /\ zooming = NoGesture

Init ==
    /\ AppInit
    /\ geoIn = <<Paris, NewYork>>
    /\ geoOut = NoGeo

\* ------------------------------------------------------------------------
\* App: handleVisualize, the geocoding calls, the two switches
\* ------------------------------------------------------------------------

NoFrame == settled' = <<>> /\ dragged' = FALSE

EmptyInputError == "Please enter both a start and end location."
NotFoundError == "Failed to fetch location data: Could not find coordinates for one or both locations."
UpstreamError == "Failed to fetch location data: Could not retrieve coordinates for \"place\"."

\* (mutant) the form and the path type buttons never disabled
DisabledNever(loading) == FALSE

\* ControlPanel: disabled={isLoading} on the two inputs, the path type
\* buttons and the submit button
Disabled(loading) == loading

\* handleVisualize up to its await.  setError with a new message renders App
\* again, and App hands the visualization a new array [points[0].coords,
\* points[1].coords] at every render: the effect on [points, pathType] runs
\* again when points are on display (null stays null, and the same message
\* renders nothing).  The form is submitted by a click: React runs an effect
\* that is still pending, renders, and runs the effects of that render
\* before the click returns.
handleVisualize(from, to) ==
    /\ ~Disabled(isLoading)
    /\ steps < MaxSteps
    /\ steps' = steps + 1
    /\ NoFrame
    /\ IF from = "" \/ to = ""
       THEN /\ error' = EmptyInputError
            /\ IF points # <<>> /\ error # EmptyInputError
               THEN /\ PathEffect(viewMode, Flushed.overlay, Flushed.transitions, points, pathType, zoomT)
                    /\ snapshot' = NoSnapshot
                    /\ effectPending' = FALSE
               ELSE UNCHANGED <<overlay, transitions, snapshot, effectPending>>
            /\ UNCHANGED <<geoVars, zooming, points, isLoading, viewMode, pathType, pending, queued,
                           inFlight, zoomT, globeView, fetches, basemap>>
       ELSE /\ isLoading' = TRUE
            /\ error' = ""
            /\ points' = <<>>
            /\ pending' = <<from, to>>
            /\ inFlight' = inFlight + 1
            /\ effectPending' = FALSE
            /\ IF points # <<>>
               THEN PathEffect(viewMode, Flushed.overlay, Flushed.transitions, <<>>, pathType, zoomT)
               ELSE UNCHANGED <<overlay, transitions>>
            /\ snapshot' = IF points # <<>> /\ Flushed.transitions = <<>>
                           THEN [outcome |-> "pending", hadPath |-> TRUE, idle |-> TRUE,
                                 touched |-> FALSE, mode |-> viewMode, zoom |-> zoomT,
                                 rot |-> rotation, scale |-> scale]
                           ELSE NoSnapshot
            /\ UNCHANGED <<geoVars, zooming, viewMode, pathType, queued, zoomT, globeView, fetches,
                           basemap>>

\* (mutant) setIsLoading(false) at the end of the try block, not in a finally
geocodeSettledWithoutFinally(r1, r2) ==
    /\ pending # <<>>
    /\ pending' = <<>>
    /\ inFlight' = inFlight - 1
    /\ NoFrame
    /\ queued' =
          IF r1.status = "throw" \/ r2.status = "throw"
          THEN <<[points |-> <<>>, error |-> UpstreamError, isLoading |-> TRUE]>>
          ELSE IF r1.status = "null" \/ r2.status = "null"
          THEN <<[points |-> <<>>, error |-> NotFoundError, isLoading |-> TRUE]>>
          ELSE <<[points |-> <<Coord(r1.lat, r1.lon), Coord(r2.lat, r2.lon)>>, error |-> "",
                  isLoading |-> FALSE]>>
    /\ UNCHANGED <<geoVars, zooming, points, isLoading, error, viewMode, pathType, effectPending,
                   zoomT, globeView, transitions, overlay, fetches, basemap, steps, snapshot>>

\* Promise.all of the two getCoordinatesForLocation calls settles and the
\* rest of handleVisualize runs, in a microtask: setPoints or setError, and
\* setIsLoading(false) in the finally block.  The call has returned; the state
\* updates are queued, and App stays as it was rendered (isLoading, no
\* points, the form disabled) until React renders them.
geocodeSettled(r1, r2) ==
    /\ pending # <<>>
    /\ pending' = <<>>
    /\ inFlight' = inFlight - 1
    /\ NoFrame
    /\ queued' =
          IF r1.status = "throw" \/ r2.status = "throw"
          THEN <<[points |-> <<>>, error |-> UpstreamError, isLoading |-> FALSE]>>
          ELSE IF r1.status = "null" \/ r2.status = "null"
          THEN <<[points |-> <<>>, error |-> NotFoundError, isLoading |-> FALSE]>>
          ELSE <<[points |-> <<Coord(r1.lat, r1.lon), Coord(r2.lat, r2.lon)>>, error |-> "",
                  isLoading |-> FALSE]>>
    /\ UNCHANGED <<geoVars, zooming, points, isLoading, error, viewMode, pathType, effectPending,
                   zoomT, globeView, transitions, overlay, fetches, basemap, steps, snapshot>>

\* React renders the queued state updates of handleVisualize, in a task of
\* its own after the microtask that queued them.  The effect on
\* [points, pathType] of that render (points are set) is left pending: React
\* runs it in a later task, after the browser has painted.
renderQueued ==
    /\ queued # <<>>
    /\ queued' = <<>>
    /\ points' = queued[1].points
    /\ error' = queued[1].error
    /\ isLoading' = queued[1].isLoading
    /\ effectPending' = (queued[1].points # <<>>)
    /\ snapshot' = IF queued[1].points # <<>> \/ snapshot.outcome = "none" THEN NoSnapshot
                   ELSE [snapshot EXCEPT !.outcome = "failed"]
    /\ NoFrame
    /\ UNCHANGED <<geoVars, zooming, viewMode, pathType, pending, inFlight, zoomT, globeView,
                   transitions, overlay, fetches, basemap, steps>>

\* React's flushPassiveEffects for the render of renderQueued: the effect on
\* [points, pathType] of the mounted component runs.
flushPassiveEffects ==
    /\ effectPending
    /\ effectPending' = FALSE
    /\ PathEffect(viewMode, overlay, transitions, points, pathType, zoomT)
    /\ NoFrame
    /\ UNCHANGED <<geoVars, zooming, points, isLoading, error, viewMode, pathType, pending, queued,
                   inFlight, zoomT, globeView, fetches, basemap, steps, snapshot>>

\* onPathTypeChange: the buttons are disabled while loading
setPathType(p) ==
    /\ ~Disabled(isLoading)
    /\ p # pathType
    /\ steps < MaxSteps
    /\ steps' = steps + 1
    /\ NoFrame
    /\ pathType' = p
    /\ effectPending' = FALSE
    /\ PathEffect(viewMode, Flushed.overlay, Flushed.transitions, points, p, zoomT)
    /\ snapshot' = NoSnapshot
    /\ UNCHANGED <<geoVars, zooming, points, isLoading, error, viewMode, pending, queued, inFlight,
                   zoomT, globeView, fetches, basemap>>

\* The cleanup of the component that unmounts: its svg is emptied and leaves
\* the document with its transitions; a rotate tween of the globe stays on
\* the document root, holding the projection of the unmounted globe.
Unmounted(ts) ==
    LET rest == SelectSeq(ts, LAMBDA t : t.node # "svg")
    IN  [j \in 1 .. Len(rest) |-> [rest[j] EXCEPT !.live = FALSE]]

\* setViewMode: the other component mounts (both effects run)
setViewMode(v) ==
    /\ v # viewMode
    /\ steps < MaxSteps
    /\ steps' = steps + 1
    /\ NoFrame
    /\ viewMode' = v
    /\ zoomT' = zoomIdentity
    /\ rotation' = InitialRotation
    /\ zoomK' = Milli
    /\ scale' = BaselineScale * Milli
    /\ fetches' = fetches + 1
    /\ basemap' = "loading"
    /\ effectPending' = FALSE
    /\ PathEffect(v, <<>>, Unmounted(Flushed.transitions), points, pathType, zoomIdentity)
    /\ snapshot' = NoSnapshot
    /\ zooming' = NoGesture
    /\ UNCHANGED <<geoVars, points, isLoading, error, pathType, pending, queued, inFlight>>

\* What the d3.json promise of the mounted component settles with: the
\* topology (the countries are drawn), something that is no topology (the
\* callback logs and returns), or a rejection (nothing handles it).
BasemapOutcomes == {"loaded", "invalid", "failed"}

basemapSettled(outcome) ==
    /\ basemap = "loading"
    /\ basemap' = outcome
    /\ steps < MaxSteps
    /\ steps' = steps + 1
    /\ NoFrame
    /\ UNCHANGED <<geoVars, zooming, appVars, zoomT, globeView, transitions, overlay, fetches, snapshot>>

\* ------------------------------------------------------------------------
\* Pointer input: d3-zoom on the Mercator svg, d3-drag and d3-zoom on the globe
\* ------------------------------------------------------------------------

\* A wheel event scales k by 2 ^ (-deltaY * 0.002): deltaY = -500 or 500.
WheelPowers == {-1, 1}
WheelPoints == {[x |-> 0, y |-> 0]}
PanDeltas == {<<300, -100>>}
DragDeltas == {<<80, 40>>}
\* Where the first and the second finger come down on the Mercator svg, and
\* where the finger that came down last is moved to.
Fingers == <<[x |-> 180, y |-> 110], [x |-> 540, y |-> 330]>>
TouchMoves == {[x |-> 720, y |-> 440], [x |-> 360, y |-> 220]}

\* sens = 0.25, times the 100 of the drag handler
Sens == 25

Scaled(k, power) == IF power > 0 THEN k * 2 ELSE k \div 2

\* translate(t, p, l) of d3-zoom: new Transform(t.k, p[0] - l[0] * t.k,
\* p[1] - l[1] * t.k), the transform of the k of t that brings the point l of
\* the map under the pointer p.  t.x and t.y are not read.
Translated(t, p, l) ==
    IF t.nan THEN NaNTransform
    ELSE IF l.nan THEN NaNTranslated(t.k)
    ELSE Transform(t.k, p.x - MulDiv(l.x, t.k, Micro), p.y - MulDiv(l.y, t.k, Micro))

\* translate(scale(t, k), p, t.invert(p)) with k clamped to the scale extent:
\* the point under the pointer stays where it is, x = p[0] - p1[0] * k with
\* p1[0] = (p[0] - t.x) / t.k.  At the end of the extent scale and translate
\* return t itself.
ScaledAbout(t, power, p, extent) ==
    IF t.nan THEN NaNTransform
    ELSE LET k == Clamp(Scaled(t.k, power), extent)
         IN  IF k = t.k THEN t
             ELSE IF t.xyNaN THEN NaNTranslated(k)
             ELSE Transform(k, p.x - MulDiv(p.x - t.x, k, t.k), p.y - MulDiv(p.y - t.y, k, t.k))

\* wheeled of d3-zoom.  While the timer of an earlier wheel event is pending
\* (g.wheel) the gesture goes on: no interrupt, and 'zoom' is emitted even
\* when k stays at the end of the extent.  Otherwise the handler returns when
\* k does not change (t.k === k, which NaN never satisfies), and else starts
\* a gesture, which interrupts the svg's transitions.  (A wheel event while
\* the button is down or a finger is on the svg is not among the inputs.)
mercatorWheel(power, p) ==
    /\ viewMode = "map"
    /\ zooming.mouse = <<>>
    /\ zooming.touch0 = <<>>
    /\ steps < MaxSteps
    /\ steps' = steps + 1
    /\ NoFrame
    /\ snapshot' = NoSnapshot
    /\ LET target == ScaledAbout(zoomT, power, p, MercatorScaleExtent)
       IN  IF ~zooming.wheel /\ ~zoomT.nan /\ target.k = zoomT.k
           THEN UNCHANGED <<zoomT, transitions, overlay, zooming>>
           ELSE /\ zoomT' = target
                /\ transitions' = IF zooming.wheel THEN transitions
                                  ELSE Interrupt(transitions, "svg")
                /\ zooming' = [zooming EXCEPT !.wheel = TRUE]
                /\ overlay' = Resized(overlay, target)
    /\ UNCHANGED <<geoVars, appVars, globeView, fetches, basemap>>

\* wheelidled: the timer of the last wheel event fires and the gesture ends,
\* g.end().  The gesture that a press has replaced has one start to end, and
\* its end deletes this.__zooming: the gesture of the press, from then on
\* not the one a transition that starts takes up.
wheelIdled ==
    /\ zooming.wheel \/ zooming.orphan
    /\ zooming' = [zooming EXCEPT !.wheel = FALSE, !.orphan = FALSE,
                                  !.held = IF zooming.orphan THEN FALSE ELSE @]
    /\ NoFrame
    /\ UNCHANGED <<geoVars, appVars, zoomT, globeView, transitions, overlay, fetches, basemap,
                   steps, snapshot>>

\* mousedowned of d3-zoom on the Mercator svg, with the pointer at p: a new
\* gesture (gesture(this, args, true)) records g.mouse = [p, invert(p)],
\* interrupts the svg's transitions and starts, which makes it
\* this.__zooming; the transform stays and no 'zoom' is emitted.  The timer
\* of a wheel gesture goes on.  (The mouse is not used while a finger is on
\* the svg.)
mercatorPress(p) ==
    /\ viewMode = "map"
    /\ zooming.mouse = <<>>
    /\ zooming.touch0 = <<>>
    /\ steps < MaxSteps
    /\ steps' = steps + 1
    /\ NoFrame
    /\ snapshot' = NoSnapshot
    /\ zooming' = [NoGesture EXCEPT !.orphan = zooming.wheel, !.held = TRUE,
                                    !.mouse = <<Grip(p, Invert(zoomT, p))>>]
    /\ transitions' = Interrupt(transitions, "svg")
    /\ UNCHANGED <<geoVars, appVars, zoomT, globeView, overlay, fetches, basemap>>

\* mousemoved of d3-zoom, the pointer moving by d:
\* translate(this.__zoom, g.mouse[0] = pointer, g.mouse[1]).  The point of
\* the record comes under the pointer, whatever has moved the transform since
\* the record was made; 'zoom' is emitted, nothing is interrupted.
mercatorPan(d) ==
    /\ viewMode = "map"
    /\ zooming.mouse # <<>>
    /\ steps < MaxSteps
    /\ steps' = steps + 1
    /\ NoFrame
    /\ snapshot' = NoSnapshot
    /\ LET p == [x |-> zooming.mouse[1].p.x + d[1], y |-> zooming.mouse[1].p.y + d[2]]
       IN  /\ zoomT' = Translated(zoomT, p, zooming.mouse[1].l)
           /\ zooming' = [zooming EXCEPT !.mouse[1].p = p]
    /\ overlay' = Resized(overlay, zoomT')
    /\ UNCHANGED <<geoVars, appVars, globeView, transitions, fetches, basemap>>

\* mouseupped of d3-zoom: the gesture ends.  (A button pressed while the
\* timer of a wheel gesture is pending is kept down until the timer has
\* fired.)
mercatorRelease ==
    /\ viewMode = "map"
    /\ zooming.mouse # <<>>
    /\ ~zooming.orphan
    /\ zooming' = NoGesture
    /\ NoFrame
    /\ UNCHANGED <<geoVars, appVars, zoomT, globeView, transitions, overlay, fetches, basemap,
                   steps, snapshot>>

\* touchstarted of d3-zoom on the Mercator svg: the fingers ps come down.
\* With no finger on the svg before (event.changedTouches are all the
\* touches) the gesture is a new one: it records g.touch0 (and g.touch1) as
\* [p, invert(p)], interrupts the svg's transitions and starts.  A second
\* finger joins the gesture that is this.__zooming: g.touch1 is recorded,
\* nothing is interrupted.  The transform stays.  (A finger is not put down
\* while a mouse button is down or the timer of a wheel gesture is pending;
\* two taps in touchDelay are the double click.)
mercatorTouchStart(ps) ==
    /\ viewMode = "map"
    /\ zooming.mouse = <<>>
    /\ ~zooming.wheel
    /\ steps < MaxSteps
    /\ steps' = steps + 1
    /\ NoFrame
    /\ snapshot' = NoSnapshot
    /\ IF zooming.touch0 = <<>>
       THEN /\ ps \in {<<Fingers[1]>>, Fingers}
            /\ zooming' = [NoGesture EXCEPT
                              !.held = TRUE,
                              !.touch0 = <<Grip(ps[1], Invert(zoomT, ps[1]))>>,
                              !.touch1 = IF Len(ps) = 2
                                         THEN <<Grip(ps[2], Invert(zoomT, ps[2]))>> ELSE <<>>]
            /\ transitions' = Interrupt(transitions, "svg")
       ELSE /\ ps = <<Fingers[2]>>
            /\ zooming.touch1 = <<>>
            /\ zooming.touch0[1].p # Fingers[2]
            /\ zooming.held
            /\ zooming' = [zooming EXCEPT !.touch1 = <<Grip(ps[1], Invert(zoomT, ps[1]))>>]
            /\ UNCHANGED transitions
    /\ UNCHANGED <<geoVars, appVars, zoomT, globeView, overlay, fetches, basemap>>

\* scale(t, Math.sqrt(dp / dl)) and translate(., p, l) of touchmoved for the
\* two records a and b: dp and dl are the squared distances of the fingers
\* and of the points of the map they keep, p and l the midpoints of the two.
\* k is the ratio of the distances, clamped to the scale extent (Infinity at
\* dl = 0 becomes its upper end; NaN stays NaN).
Pinched(a, b, extent) ==
    IF a.l.nan \/ b.l.nan THEN NaNTransform
    ELSE LET dp == Distance((b.p.x - a.p.x) * Milli, (b.p.y - a.p.y) * Milli)
             dl == Distance(b.l.x - a.l.x, b.l.y - a.l.y)
             k == IF dl = 0 THEN extent[2] ELSE Clamp(MulDiv(dp, Milli, dl), extent)
         IN  Transform(k,
                       MulDiv((a.p.x + b.p.x) * Milli - MulDiv(a.l.x + b.l.x, k, Milli), 1, 2 * Milli),
                       MulDiv((a.p.y + b.p.y) * Milli - MulDiv(a.l.y + b.l.y, k, Milli), 1, 2 * Milli))

\* touchmoved of d3-zoom, the finger that came down last moving to p.  The
\* handler returns at once when the gesture of the fingers is not
\* this.__zooming.  With two fingers on the svg the transform is that of the
\* pinch, with one the point of its record comes under the finger; 'zoom' is
\* emitted, nothing is interrupted.
mercatorTouchMove(p) ==
    /\ viewMode = "map"
    /\ zooming.touch0 # <<>>
    /\ zooming.held
    /\ steps < MaxSteps
    /\ steps' = steps + 1
    /\ NoFrame
    /\ snapshot' = NoSnapshot
    /\ IF zooming.touch1 # <<>>
       THEN /\ p \notin {zooming.touch0[1].p, zooming.touch1[1].p}
            /\ zooming' = [zooming EXCEPT !.touch1[1].p = p]
            /\ zoomT' = Pinched(zooming.touch0[1], zooming'.touch1[1], MercatorScaleExtent)
       ELSE /\ p # zooming.touch0[1].p
            /\ zooming' = [zooming EXCEPT !.touch0[1].p = p]
            /\ zoomT' = Translated(zoomT, p, zooming.touch0[1].l)
    /\ overlay' = Resized(overlay, zoomT')
    /\ UNCHANGED <<geoVars, appVars, globeView, transitions, fetches, basemap>>

\* touchended of d3-zoom: the finger that came down last is lifted.  The
\* record of a finger that stays is made anew,
\* g.touch0[1] = this.__zoom.invert(g.touch0[0]); with the last finger the
\* gesture ends.
mercatorTouchEnd ==
    /\ viewMode = "map"
    /\ zooming.touch0 # <<>>
    /\ zooming.held
    /\ zooming' = IF zooming.touch1 # <<>>
                  THEN [zooming EXCEPT !.touch1 = <<>>,
                                       !.touch0 = Regripped(@, zoomT)]
                  ELSE NoGesture
    /\ NoFrame
    /\ UNCHANGED <<geoVars, appVars, zoomT, globeView, transitions, overlay, fetches, basemap,
                   steps, snapshot>>

\* dblclicked of d3-zoom on the Mercator svg: a transition of 250 ms to the
\* transform of twice the k (clamped) about the pointer; it is scheduled also
\* when k is at the end of the extent.  (The double click with the shift key,
\* which halves k, is not among the inputs.)
mercatorDblclick(p) ==
    /\ viewMode = "map"
    /\ steps < MaxSteps
    /\ steps' = steps + 1
    /\ NoFrame
    /\ snapshot' = NoSnapshot
    /\ transitions' = Append(transitions,
                             DblclickTransition(ScaledAbout(zoomT, 1, p, MercatorScaleExtent), p))
    /\ UNCHANGED <<geoVars, appVars, zooming, zoomT, globeView, overlay, fetches, basemap>>

\* The zoom transform of the globe's svg: the listener reads its k only, and
\* x and y stay 0 under wheel events and double clicks at the origin.
GlobeZoom(k) == Transform(k, 0, 0)

\* wheeled of d3-zoom with zoomBehavior of the globe:
\* projection.scale(baseline * event.transform.k) and redrawElements
globeWheel(power) ==
    /\ viewMode = "globe"
    /\ steps < MaxSteps
    /\ steps' = steps + 1
    /\ NoFrame
    /\ snapshot' = NoSnapshot
    /\ LET k == Clamp(Scaled(zoomK, power), GlobeScaleExtent)
       IN  IF ~zooming.wheel /\ k = zoomK
           THEN UNCHANGED <<zoomK, scale, overlay, transitions, zooming>>
           ELSE /\ zoomK' = k
                /\ scale' = BaselineScale * k
                /\ overlay' = Redrawn(overlay, rotation)
                /\ transitions' = IF zooming.wheel THEN transitions
                                  ELSE Interrupt(transitions, "svg")
                /\ zooming' = [zooming EXCEPT !.wheel = TRUE]
    /\ UNCHANGED <<geoVars, appVars, zoomT, rotation, fetches, basemap>>

\* dblclicked of d3-zoom on the globe's svg.  d3-drag, installed first, stops
\* the mousedown and touchstart events before d3-zoom's listeners run (they
\* never pan or pinch the globe), not the wheel and dblclick events.
globeDblclick(p) ==
    /\ viewMode = "globe"
    /\ steps < MaxSteps
    /\ steps' = steps + 1
    /\ NoFrame
    /\ snapshot' = NoSnapshot
    /\ transitions' = Append(transitions,
                             DblclickTransition(ScaledAbout(GlobeZoom(zoomK), 1, p, GlobeScaleExtent), p))
    /\ UNCHANGED <<geoVars, appVars, zooming, zoomT, globeView, overlay, fetches, basemap>>

\* dragBehavior of the globe: rotate by (dx k 100, -dy k 100), k = sens / scale
globeDrag(d) ==
    /\ viewMode = "globe"
    /\ steps < MaxSteps
    /\ steps' = steps + 1
    /\ settled' = <<>>
    /\ dragged' = TRUE
    /\ snapshot' = NoSnapshot
    /\ rotation' = RotateSet(<<rotation[1] + (d[1] * Sens * Milli) \div scale,
                               rotation[2] - (d[2] * Sens * Milli) \div scale>>)
    /\ overlay' = Redrawn(overlay, rotation')
    /\ UNCHANGED <<geoVars, zooming, appVars, zoomT, zoomK, scale, transitions, fetches, basemap>>

\* ------------------------------------------------------------------------
\* An animation frame
\* ------------------------------------------------------------------------

Frame ==
    /\ transitions # <<>> \/ Growing(overlay)
    /\ \E st \in {RunTimers(Timers(transitions,
                                    IF viewMode = "map" THEN zoomT ELSE GlobeZoom(zoomK),
                                    rotation, <<>>, zooming), 1)} :
       LET ticked == \E i \in DOMAIN transitions :
                        transitions[i].live /\ transitions[i].node = "svg"
       IN  /\ transitions' = SelectSeq(st.ts, LAMBDA t : t.phase # "ended")
           /\ zooming' = st.g
           /\ IF viewMode = "map"
              THEN zoomT' = st.zoom /\ UNCHANGED <<zoomK, scale>>
              ELSE /\ zoomK' = st.zoom.k
                   /\ scale' = IF ticked THEN BaselineScale * st.zoom.k ELSE scale
                   /\ UNCHANGED zoomT
           /\ rotation' = st.rot
           /\ settled' = st.settled
           /\ dragged' = FALSE
           \* every transition of the mounted view ticks in the frame, and
           \* its tick resizes (zoom event of the map), or redraws (zoom
           \* event of the globe, rotate tween)
           /\ overlay' =
                 IF ticked /\ viewMode = "map"
                 THEN Resized(overlay, st.zoom)
                 ELSE IF ticked \/ \E i \in DOMAIN transitions :
                                      transitions[i].live /\ transitions[i].node = "root"
                 THEN Grown(Redrawn(overlay, st.rot))
                 ELSE Grown(overlay)
    /\ UNCHANGED <<geoVars, appVars, fetches, basemap, steps, snapshot>>

Next ==
    \/ \E f \in Submits : handleVisualize(f[1], f[2])
    \/ \E r \in GeocodeOutcomes : geocodeSettled(r[1], r[2])
    \/ renderQueued
    \/ flushPassiveEffects
    \/ \E p \in PathTypes : setPathType(p)
    \/ \E v \in ViewModes : setViewMode(v)
    \/ \E o \in BasemapOutcomes : basemapSettled(o)
    \/ \E power \in WheelPowers, p \in WheelPoints : mercatorWheel(power, p)
    \/ wheelIdled
    \/ \E p \in WheelPoints : mercatorPress(p)
    \/ \E d \in PanDeltas : mercatorPan(d)
    \/ mercatorRelease
    \/ \E ps \in {<<Fingers[1]>>, <<Fingers[2]>>, Fingers} :
          mercatorTouchStart(ps)
    \/ \E p \in TouchMoves : mercatorTouchMove(p)
    \/ mercatorTouchEnd
    \/ \E p \in WheelPoints : mercatorDblclick(p)
    \/ \E power \in WheelPowers : globeWheel(power)
    \/ \E p \in WheelPoints : globeDblclick(p)
    \/ \E d \in DragDeltas : globeDrag(d)
    \/ Frame

Spec == Init /\ [][Next]_vars

\* The events of App and of the timer queue: the steps that can change the
\* state of App (appVars), which every pointer handler of d3-zoom and d3-drag
\* leaves as it is.
AppNext ==
    \/ \E f \in Submits : handleVisualize(f[1], f[2])
    \/ \E r \in GeocodeOutcomes : geocodeSettled(r[1], r[2])
    \/ renderQueued
    \/ flushPassiveEffects
    \/ \E p \in PathTypes : setPathType(p)
    \/ \E v \in ViewModes : setViewMode(v)
    \/ \E o \in BasemapOutcomes : basemapSettled(o)
    \/ Frame

\* The two requests of getCoordinatesForLocation settle (with coordinates,
\* with null or with a throw): the promise of Promise.all is not left pending;
\* and the task in which React renders queued state updates is run.
LiveSpec ==
    /\ Init
    /\ [][AppNext]_vars
    /\ WF_vars(\E o \in GeocodeOutcomes : geocodeSettled(o[1], o[2]))
    /\ WF_vars(renderQueued)

\* ------------------------------------------------------------------------
\* The geo utilities and the rhumb line generator on their own: called with
\* any two of the places below
\* ------------------------------------------------------------------------

GeoLats == {-90, -58, -34, -8, 0, 8, 28, 41, 49, 58, 90}
GeoLons == {-178, -170, -74, 2, 151, 170}
GeoPlaces == {Coord(lat, lon) : lat \in GeoLats, lon \in GeoLons}

GeoInit ==
    /\ AppInit
    /\ geoIn \in GeoPlaces \X GeoPlaces
    /\ geoOut = NoGeo

\* App: distance, of either path type
measure ==
    /\ geoOut.done = "none"
    /\ geoOut' = [NoGeo EXCEPT !.done = "distance",
                               !.ortho = calculateOrthodromicDistance(geoIn[1], geoIn[2]),
                               !.lox = calculateLoxodromicDistance(geoIn[1], geoIn[2])]
    /\ UNCHANGED <<appVars, zooming, zoomT, globeView, transitions, overlay, fetches, basemap, steps,
                   snapshot, settled, dragged, geoIn>>

\* GlobeVisualization: route, of the loxodromic path type
sample ==
    /\ geoOut.done = "none"
    /\ geoOut' = [NoGeo EXCEPT !.done = "route", !.route = loxodromicRoute(geoIn[1], geoIn[2])]
    /\ UNCHANGED <<appVars, zooming, zoomT, globeView, transitions, overlay, fetches, basemap, steps,
                   snapshot, settled, dragged, geoIn>>

\* The longitude difference of the two: deltaLon of calculateLoxodromicDistance
\* after its correction (ten-thousandths of a radian), and lon2 - lon1 of the
\* route generator after its adjustment of lon2 (degrees)
wrap ==
    /\ geoOut.done = "none"
    /\ geoOut' = [NoGeo EXCEPT !.done = "wrap",
                               !.deltaLon = WrappedDeltaLon(deg2rad(geoIn[2].lon - geoIn[1].lon)),
                               !.lonSpan = AdjustedLon2(geoIn[1].lon, geoIn[2].lon) - geoIn[1].lon]
    /\ UNCHANGED <<appVars, zooming, zoomT, globeView, transitions, overlay, fetches, basemap, steps,
                   snapshot, settled, dragged, geoIn>>

GeoNext == measure \/ sample \/ wrap

GeoSpec == GeoInit /\ [][GeoNext]_vars

\* ------------------------------------------------------------------------
\* Claims
\* ------------------------------------------------------------------------

InExtent(k, extent) == extent[1] <= k /\ k <= extent[2]

\* C1: in every reachable state of the Mercator view the zoom factor k is
\* within [0.8, 18].  Stated for the states in which k is a number: k is NaN
\* only after an endpoint with a latitude beyond the poles was accepted,
\* which is the subject of C9.
C1_MercatorZoomClamped ==
    (viewMode = "map" /\ ~zoomT.nan) => InExtent(zoomT.k, MercatorScaleExtent)

\* C2: in every state of the globe the zoom factor k is within [0.8, 10] and
\* the projection scale is the baseline scale times k.
C2_GlobeZoomClamped ==
    viewMode = "globe" =>
        /\ (8 * Milli) \div 10 <= zoomK
        /\ zoomK <= 10 * Milli
        /\ scale = BaselineScale * zoomK

\* C2 witness: wheel events took k past the upper end of the extent and the
\* zoom kept it at 10.
C2_Witness ==
    /\ viewMode = "globe"
    /\ zoomK = 10 * Milli
    /\ scale = BaselineScale * 10 * Milli

Paths(ov) == {i \in DOMAIN ov : ov[i].class = "flight-path"}
Markers(ov) == {i \in DOMAIN ov : ov[i].class = "endpoint"}

\* C3: the overlay holds at most one flight path and at most two endpoint
\* markers, all of them of the current points and the current path type,
\* and with no points it holds neither: what an earlier run of the effect
\* drew is gone when a run draws.
C3_NoStaleOverlay ==
    IF points = <<>>
    THEN Paths(overlay) = {} /\ Markers(overlay) = {}
    ELSE /\ Cardinality(Paths(overlay)) <= 1
         /\ \A i \in Paths(overlay) :
               overlay[i].datum = points /\ overlay[i].pathType = pathType
         /\ Cardinality(Markers(overlay)) <= 2
         /\ \A i \in Markers(overlay) : overlay[i].datum[1] \in {points[1], points[2]}

\* C3 witness: the effect ran twice with points on the same component (two
\* auto-fit tweens of one node are queued), so the overlay of the first run
\* was there when the second run drew the rhumb line.
C3_Witness ==
    /\ points # <<>>
    /\ pathType = "loxodromic"
    /\ Len(overlay) = 3
    /\ Len(transitions) = 2
    /\ \A i \in {1, 2} : transitions[i].kind = "fit" /\ transitions[i].live
    /\ transitions[1].node = transitions[2].node

\* C4: of the tweens of the mounted view at most one is running, so at most
\* one tween writes the view of a mode.
C4_TweenExclusive ==
    Cardinality({i \in DOMAIN transitions :
                    transitions[i].live /\ Running(transitions[i])}) <= 1

\* C5: when a request issued with a path on display fails, the view of the
\* mounted mode is what it was when the request was issued (the user did
\* not touch the view, the path type or the mode in between, and no tween
\* was under way).
C5_FailureKeepsView ==
    (/\ snapshot.outcome = "failed"
     /\ snapshot.hadPath
     /\ snapshot.idle
     /\ ~snapshot.touched
     /\ snapshot.mode = viewMode)
    => IF viewMode = "map"
       THEN zoomT = snapshot.zoom
       ELSE rotation = snapshot.rot /\ scale = snapshot.scale

\* C6: every step that clears the path (points become null) schedules, in
\* the mounted mode, a transition of 750 ms to the default view.
C6_ClearResetsView ==
    [][(points # <<>> /\ points' = <<>>) =>
          \E i \in DOMAIN transitions' :
             /\ transitions'[i].kind = "reset"
             /\ transitions'[i].duration = ResetDuration
             /\ transitions'[i].phase = "scheduled"
             /\ transitions'[i].live]_vars

\* the target of every queued auto-fit tween is what auto-fit computes for
\* its endpoints in the current state, whatever the view has become
C7_TargetRecomputed ==
    \A i \in DOMAIN transitions :
        LET t == transitions[i]
        IN  t.kind = "fit" =>
               IF t.node = "svg"
               THEN t.to = MercatorAutoFit(t.ends)
               ELSE <<t.to[1], t.to[2]>> = GlobeAutoFit(t.ends)

\* a frame of an auto-fit tween that runs from a view equal to its target
\* leaves the view as it is
C7_NoDrift ==
    (/\ Len(transitions) = 1
     /\ transitions[1].kind = "fit"
     /\ transitions[1].live
     /\ transitions[1].phase = "scheduled" \/ transitions[1].from = transitions[1].to
     /\ IF transitions[1].node = "svg"
        THEN zoomT = transitions[1].to
        ELSE <<rotation[1], rotation[2]>> = <<transitions[1].to[1], transitions[1].to[2]>>
     /\ Frame)
    => zoomT' = zoomT /\ rotation' = rotation

\* C7: the auto-fit target depends on the endpoints only (computed again in
\* any later state it is the same), and auto-fit run from a view that equals
\* its target does not move the view.
C7_AutoFitIdempotent == [](C7_TargetRecomputed) /\ [][C7_NoDrift]_vars

\* C7 witness: the Mercator auto-fit ran again (path-type click) after the
\* view had settled on its target; the new tween started from the target.
C7_Witness ==
    /\ viewMode = "map"
    /\ Len(transitions) = 1
    /\ transitions[1].kind = "fit"
    /\ transitions[1].phase = "started"
    /\ transitions[1].from = transitions[1].to
    /\ zoomT = transitions[1].to
    /\ zoomT # zoomIdentity
    /\ ~zoomT.nan

\* C8: the last tick of a tween that was not interrupted leaves the view
\* equal to the tween's target: the auto-fit transform of its endpoints or
\* the identity in the Mercator view, the rotation (-lon, -lat) of the
\* midpoint with gamma as it was on the globe.
C8_TweenSettlesOnTarget ==
    \A i \in DOMAIN settled :
        LET s == settled[i]
        IN  /\ s.view = s.target
            /\ (s.node = "svg" /\ s.kind = "reset") => s.target[1] = zoomIdentity
            /\ (s.node = "svg" /\ s.kind = "fit") => s.target[1] = MercatorAutoFit(s.ends)
            /\ s.node = "root" =>
                  s.target[1] = <<GlobeAutoFit(s.ends)[1], GlobeAutoFit(s.ends)[2], 0>>

\* C8 witness: in the last frame a Mercator auto-fit tween ran its last tick
\* on a target that is neither the identity nor NaN, and the view is there.
C8_Witness ==
    /\ settled # <<>>
    /\ settled[1].node = "svg"
    /\ settled[1].kind = "fit"
    /\ ~settled[1].target[1].nan
    /\ settled[1].target[1] # zoomIdentity
    /\ zoomT = settled[1].target[1]

\* C9: the stored endpoints have a latitude in [-90, 90] and a longitude in
\* [-180, 180]; a geocoding result outside of them stores no path.
C9_PointsInRange ==
    \A i \in DOMAIN points :
        /\ -90 <= points[i].lat /\ points[i].lat <= 90
        /\ -180 <= points[i].lon /\ points[i].lon <= 180

\* C10: the basemap is fetched at most once in the life of the application.
C10_BasemapFetchedOnce == fetches <= 1

\* the overlay holds the path and the two markers of pts, and the auto-fit
\* tween of pts waits in the timer queue
DrawnAndFitted(ov, ts, pts) ==
    /\ Cardinality(Paths(ov)) = 1
    /\ \A i \in Paths(ov) : ov[i].datum = pts
    /\ Cardinality(Markers(ov)) = 2
    /\ \E i \in DOMAIN ts :
          /\ ts[i].kind = "fit"
          /\ ts[i].phase = "scheduled"
          /\ ts[i].ends = pts
          /\ ts[i].live

\* the overlay holds the path and the two markers of pts
Drawn(ov, pts) ==
    /\ Cardinality(Paths(ov)) = 1
    /\ \A i \in Paths(ov) : ov[i].datum = pts
    /\ Cardinality(Markers(ov)) = 2

\* C11: while the basemap is not loaded (pending, invalid or failed), the
\* run of the effect with points (after a request that resolved, a
\* path-type click, a mode switch with points) draws the path and both
\* markers and schedules auto-fit, and the path and the markers stay drawn
\* from then on; and the basemap load settling changes neither the overlay
\* nor the tweens nor the view.
C11_PathWithoutBasemap ==
    /\ []((basemap # "loaded" /\ points # <<>> /\ ~effectPending) => Drawn(overlay, points))
    /\ [][/\ (/\ basemap' # "loaded"
              /\ points' # <<>>
              /\ ~effectPending'
              /\ effectPending \/ <<pathType', viewMode'>> # <<pathType, viewMode>>)
             => DrawnAndFitted(overlay', transitions', points')
          /\ (basemap' # basemap /\ viewMode' = viewMode)
             => UNCHANGED <<overlay, transitions, zoomT, rotation, scale>>]_vars

\* C11 witness: the basemap load has failed, and the path and markers of the
\* current points are drawn with their auto-fit tween queued.
C11_Witness ==
    /\ basemap = "failed"
    /\ points # <<>>
    /\ DrawnAndFitted(overlay, transitions, points)

\* C12: on the globe, whenever endpoint markers exist, a marker is hidden
\* exactly when its endpoint is more than a quarter turn away from the
\* centre of the view.
C12_MarkersCulled ==
    viewMode = "globe" =>
        \A i \in Markers(overlay) :
            (overlay[i].display = "none") <=> ~IsVisible(overlay[i].datum[1], rotation)

\* C13: in both modes the stroke width of the path and the radius of the
\* markers are 2 / sqrt(z) and 5 / sqrt(z) for the zoom factor z of the mode
\* (the radius once the marker has grown in).
C13_SizeTracksZoom ==
    LET z == IF viewMode = "map" THEN zoomT ELSE Transform(zoomK, 0, 0)
    IN  /\ \A i \in Paths(overlay) : overlay[i].size = Sized(2, z)
        /\ \A i \in Markers(overlay) :
               overlay[i].growth = <<>> => overlay[i].size = Sized(5, z)

\* C17: the orthodromic distance from a point to itself is 0, and the
\* distance from p1 to p2 is the distance from p2 to p1; both are numbers.
C17_OrthodromicZeroAndSymmetric ==
    geoOut.done = "distance" =>
        /\ ~geoOut.ortho.nan
        /\ geoIn[1] = geoIn[2] => geoOut.ortho = Num(0)
        /\ geoOut.ortho = calculateOrthodromicDistance(geoIn[2], geoIn[1])

\* The tolerance of C18, in kilometres.
Epsilon == 2

\* Two places on one line through the centre of the Earth, opposite each other.
Antipodal(p1, p2) == p2.lat = -p1.lat /\ Abs(p2.lon - p1.lon) = 180

\* C18: the loxodromic distance of two places that are not opposite each
\* other on a line through the centre is at least their orthodromic distance,
\* up to epsilon; also when their longitudes are more than 180 degrees apart.
C18_RhumbNotShorter ==
    (geoOut.done = "distance" /\ ~Antipodal(geoIn[1], geoIn[2])) =>
        /\ ~geoOut.ortho.nan
        /\ geoOut.lox >= geoOut.ortho.v - Epsilon

\* C18 witness: the two distances of places on different parallels whose
\* longitudes are 340 degrees apart, the rhumb line being the longer one.
C18_Witness ==
    /\ geoOut.done = "distance"
    /\ Abs(geoIn[2].lon - geoIn[1].lon) > 180
    /\ geoIn[1].lat # geoIn[2].lat
    /\ ~geoOut.ortho.nan
    /\ geoOut.lox > geoOut.ortho.v + Epsilon

\* The longitudes of a route are numbers, and they never turn back.
FiniteRoute(route) == \A n \in DOMAIN route : ~route[n].nan
MonotoneRoute(route) ==
    \/ \A n \in 1 .. Len(route) - 1 : route[n + 1].lon >= route[n].lon
    \/ \A n \in 1 .. Len(route) - 1 : route[n + 1].lon <= route[n].lon

\* C14: the loxodromic path of two endpoints whose longitudes are more than
\* 180 degrees apart has longitudes that change monotonically from start to
\* end, no two consecutive samples more than 180 degrees apart.
C14_AntimeridianContinuity ==
    (geoOut.done = "route" /\ Abs(geoIn[2].lon - geoIn[1].lon) > 180) =>
        /\ FiniteRoute(geoOut.route)
        /\ MonotoneRoute(geoOut.route)
        /\ \A n \in 1 .. Len(geoOut.route) - 1 :
               Abs(geoOut.route[n + 1].lon - geoOut.route[n].lon) <= 180 * Milli

\* C15: the loxodromic path has numPoints + 1 samples at equal increments of
\* latitude, the first at the start and the last at the end (its longitude
\* modulo 360 degrees); between endpoints of one latitude every sample has
\* that latitude and the longitude is interpolated linearly.
C15_PathShape ==
    geoOut.done = "route" =>
        LET route == geoOut.route
            start == geoIn[1]
            end   == geoIn[2]
        IN  /\ Len(route) = numPoints + 1
            /\ \A n \in 1 .. Len(route) - 1 :
                   (route[n + 1].lat - route[n].lat) * numPoints = (end.lat - start.lat) * Milli
            /\ route[1] = RoutePoint(start.lon * Milli, start.lat * Milli)
            /\ ~route[Len(route)].nan
            /\ route[Len(route)].lat = end.lat * Milli
            /\ (route[Len(route)].lon - end.lon * Milli) % (360 * Milli) = 0
            /\ start.lat = end.lat =>
                   \A n \in 1 .. Len(route) :
                       /\ route[n].lat = start.lat * Milli
                       /\ ~route[n].nan
                       /\ (route[n].lon - route[1].lon) * numPoints
                              = (route[Len(route)].lon - route[1].lon) * (n - 1)

\* C16: an endpoint at a pole is processed with its latitude clamped to
\* +-89.9999 degrees: every sample of the loxodromic path is a number, and
\* the stretched latitude of a pole is that of the clamped latitude, below 14.
C16_PoleGuard ==
    /\ geoOut.done = "route" => FiniteRoute(geoOut.route)
    /\ \A i \in 1 .. 2 :
           Abs(geoIn[i].lat) = 90 =>
               /\ Psi(geoIn[i].lat).inf = 0
               /\ Abs(Psi(geoIn[i].lat).v) < 14 * Trig

\* C19: the target of a Mercator auto-fit for endpoints projected to p1 and
\* p2 has k = clamp(0.9 / max(dx / width, dy / height), 0.8, 18), which is 18
\* when the two projections coincide, and a translation under which the
\* centre of their bounding box lies at the centre of the viewport.
C19_MercatorAutoFitTarget ==
    \A i \in DOMAIN transitions :
        LET t == transitions[i]
        IN  (/\ t.node = "svg"
             /\ t.kind = "fit"
             /\ ~MercatorProject(t.ends[1]).nan
             /\ ~MercatorProject(t.ends[2]).nan) =>
                LET p1 == MercatorProject(t.ends[1])
                    p2 == MercatorProject(t.ends[2])
                    dx == Abs(p1.x - p2.x)
                    dy == Abs(p1.y - p2.y)
                    x  == (p1.x + p2.x) \div 2
                    y  == (p1.y + p2.y) \div 2
                    ratio == Max((dx * Milli) \div Width, (dy * Milli) \div Height)
                IN  /\ ~t.to.nan
                    /\ (dx = 0 /\ dy = 0) => t.to.k = 18 * Milli
                    /\ ratio > 0 => t.to.k = Clamp((900 * Milli) \div ratio, <<800, 18 * Milli>>)
                    /\ (t.to.k * x) \div Milli + t.to.x = Width \div 2
                    /\ (t.to.k * y) \div Milli + t.to.y = Height \div 2

\* C19 witness: an auto-fit of the Mercator view is queued for two endpoints
\* that project to different points, its k within the bounds and above 1.
C19_Witness ==
    \E i \in DOMAIN transitions :
        /\ transitions[i].node = "svg"
        /\ transitions[i].kind = "fit"
        /\ ~transitions[i].to.nan
        /\ MercatorProject(transitions[i].ends[1]) # MercatorProject(transitions[i].ends[2])
        /\ Milli < transitions[i].to.k
        /\ transitions[i].to.k < 18 * Milli

\* C20: on the globe a pointer-move of a drag changes the rotation by
\* (dx k 100, -dy k 100), k = 0.25 / scale, and leaves the scale as it is; a
\* wheel event leaves the rotation as it is; and the frame drawn next after a
\* pointer-move of a drag still shows the rotation the drag has set.
C20_DragZoomIndependent ==
    [][/\ \A d \in DragDeltas :
              globeDrag(d) =>
                  /\ rotation' = RotateSet(<<rotation[1] + (d[1] * Sens * Milli) \div scale,
                                             rotation[2] - (d[2] * Sens * Milli) \div scale>>)
                  /\ scale' = scale
       /\ \A power \in WheelPowers : globeWheel(power) => rotation' = rotation
       /\ (dragged /\ Frame) => rotation' = rotation]_vars

\* C21: the corrected longitude difference of calculateLoxodromicDistance is
\* at most 180 degrees, congruent to lon2 - lon1 modulo 360 degrees, and the
\* difference the route generator of the globe uses for the same longitudes
\* (up to one ten-thousandth of a radian of rounding).
C21_WrapAgrees ==
    geoOut.done = "wrap" =>
        /\ Abs(geoOut.deltaLon) <= Pi
        /\ \E turns \in {-1, 0, 1} :
               Abs(geoOut.deltaLon - deg2rad(geoIn[2].lon - geoIn[1].lon) - turns * 2 * Pi) <= 1
        /\ Abs(geoOut.deltaLon - deg2rad(geoOut.lonSpan)) <= 1

\* -1, 0 or 1: the direction of a difference
Sign(n) == IF n > 0 THEN 1 ELSE IF n < 0 THEN -1 ELSE 0

\* C22: the rhumb line drawn on the Mercator map between endpoints more than
\* 180 degrees of longitude apart runs from start to end in the longitude
\* direction of the corrected difference of calculateLoxodromicDistance and
\* of the adjusted lon2 of the globe's route generator.
C22_MercatorSeam ==
    \A i \in Paths(overlay) :
        LET start == overlay[i].datum[1]
            end   == overlay[i].datum[2]
        IN  (/\ overlay[i].shape = "line"
             /\ Abs(end.lon - start.lon) > 180
             /\ ~MercatorProject(start).nan
             /\ ~MercatorProject(end).nan) =>
                /\ Sign(MercatorProject(end).x - MercatorProject(start).x)
                       = Sign(WrappedDeltaLon(deg2rad(end.lon - start.lon)))
                /\ Sign(MercatorProject(end).x - MercatorProject(start).x)
                       = Sign(AdjustedLon2(start.lon, end.lon) - start.lon)

\* C23: a visualize request with both inputs given sets isLoading and invokes
\* the geocoding once for each location; while isLoading nothing is invoked
\* again (the calls awaited stay as they are until they have returned, and
\* none is awaited after that); isLoading is eventually reset whether the
\* geocoding resolves, returns null or throws; and when it is reset no call
\* is awaited and either points are the two resolved locations and there is
\* no error, or there are no points and error is a message.
C23_RequestOutcome ==
    /\ [][/\ (~isLoading /\ isLoading') =>
                 /\ Len(pending') = 2
                 /\ \A n \in 1 .. 2 : pending'[n] # ""
          /\ (isLoading /\ isLoading') => pending' \in {pending, <<>>}
          /\ ~isLoading' => pending' = <<>>
          /\ (isLoading /\ ~isLoading') =>
                 \/ /\ error' = ""
                    /\ \E o \in GeocodeOutcomes :
                           /\ o[1].status = "ok"
                           /\ o[2].status = "ok"
                           /\ points' = <<Coord(o[1].lat, o[1].lon), Coord(o[2].lat, o[2].lon)>>
                 \/ /\ points' = <<>>
                    /\ error' # ""]_vars
    /\ (isLoading ~> ~isLoading)

\* C23 witness: a request has ended with a throw of the geocoding: no longer
\* loading, no points, the message of the failed call.
C23_Witness ==
    /\ ~isLoading
    /\ pending = <<>>
    /\ points = <<>>
    /\ error = UpstreamError

\* C24: at most one call of handleVisualize is in flight, and only while
\* isLoading; isLoading with no call in flight is the state in which the
\* call has returned and React has not rendered its state updates yet; while
\* isLoading no request starts and the path type does not change; and points
\* are only ever set from the state updates of the one call that was in
\* flight, the most recent request.
C24_OneRequestInFlight ==
    /\ [](/\ inFlight \in {0, 1}
          /\ inFlight = 1 => isLoading
          /\ isLoading => (inFlight = 1) # (queued # <<>>)
          /\ queued # <<>> => isLoading)
    /\ [][/\ isLoading => (inFlight' <= inFlight /\ pathType' = pathType)
          /\ (queued' # queued /\ queued' # <<>>) => (inFlight = 1 /\ inFlight' = 0)
          /\ (points' # points /\ points' # <<>>) =>
                (queued # <<>> /\ points' = queued[1].points /\ inFlight = 0)]_vars

\* C24 witness: a second request is in flight, the points of the first
\* removed and its auto-fit still queued.
C24_Witness ==
    /\ isLoading
    /\ inFlight = 1
    /\ points = <<>>
    /\ \E i \in DOMAIN transitions : transitions[i].kind = "fit"

\* C25: a visualize request with an empty start or end sets the error message
\* and nothing else: points, isLoading, the calls in flight, the drawn
\* overlay, the view and its queued tweens are as they were.
C25_EmptyInputNoSideEffect ==
    [][\A from, to \in Locations :
           (handleVisualize(from, to) /\ (from = "" \/ to = "")) =>
               /\ error' = EmptyInputError
               /\ UNCHANGED <<points, isLoading, pending, inFlight, overlay, transitions,
                              zoomT, rotation, zoomK, scale>>]_vars

====
